---- MODULE Spec2Model ----
(***************************************************************************)
(* Segmenta: timeline segment store, transport clock and playback          *)
(* resolver (App component and PlayerPanel component), and the export      *)
(* pipeline with its transcoding engine (RenderModal and ffmpegService).   *)
(*                                                                         *)
(* Units.  The program computes with JavaScript numbers.  Here a time in   *)
(* seconds is the integer number of 1/(FPS*SubDiv) second units, and a     *)
(* frame count is the integer number of 1/SubDiv frame units, so that      *)
(* fractional frames (a duration that is not a whole number of frames) are *)
(* exact.  Math.floor / Math.ceil / Math.round are computed on those.      *)
(***************************************************************************)
EXTENDS Integers, Sequences, FiniteSets, TLC

VARIABLES
    segments,            \* App: useState<TimelineSegment[]>
    nextId,              \* number of crypto.randomUUID() values drawn so far
    playbackMode,        \* App: 'ASSET' | 'TIMELINE'
    timelineTime,        \* App: logical time (seconds)
    isTimelinePlaying,   \* App: transport state
    activeAsset,         \* App: selected library asset or null
    activeVideoSeg,      \* PlayerPanel state
    activeMainImageSeg,  \* PlayerPanel state
    activeOverlaySeg,    \* PlayerPanel state
    activeAudioSeg,      \* PlayerPanel state
    videoSrc,            \* videoRef.current.src
    videoPaused,         \* videoRef.current.paused
    audioSrc,            \* audioRef.current.src
    audioPaused,         \* audioRef.current.paused
    videoTime,           \* videoRef.current.currentTime
    audioTime,           \* audioRef.current.currentTime
    lastRun,             \* history: the commands of the resolver run of the last step
    renderStarted,       \* RenderModal: renderStarted.current
    renderCalls,         \* history: the calls of renderTimeline by the open dialog
    mounted,             \* App is mounted
    scheduled,           \* the animation-frame callbacks requested and not yet run or cancelled
    reqRef,              \* App: reqRef.current, the handle of the last request
    ffmpegLoaded,        \* ffmpegService: the module's engine instance exists and is loaded
    engineFiles,         \* names of the files in the engine's virtual filesystem
    renderPc,            \* RenderModal / renderTimeline: where the export stands
    renderSegments,      \* renderTimeline: the segments it was called with
    videoSegments,       \* renderTimeline: Main-Video segments, sorted
    audioSegments,       \* renderTimeline: Audio segments, sorted
    clipIndex,           \* renderTimeline: i of the Stage-1 loop
    clipNames,           \* renderTimeline: clips handed to Stage 2
    audioIndex,          \* renderTimeline: i of the Stage-3 loop
    audioInputArgs,      \* renderTimeline: audio files loaded for the mix
    filterParts,         \* renderTimeline: one adelay filter per loaded audio file
    concatList,          \* renderTimeline: the text written to concat.txt
    finalOutput,         \* renderTimeline: the file Stage 4 reads
    renderError,         \* the message renderTimeline rejected with
    progressLog,         \* history: the progress values passed to onProgress (per mille)
    progressOps,         \* history: engine operations started before each progress event
    logs,                \* RenderModal: useState<string[]>, the log lines shown
    engineOps,           \* history: fetches and engine operations started by the run
    clipOutcomes,        \* history: what happened to each Stage-1 segment
    audioOutcomes,       \* history: what happened to each Stage-3 segment
    ffmpeg,              \* ffmpegService: `let ffmpeg`, 0 for null, else the instance
    instances,           \* number of `new FFmpeg()` evaluated so far
    instanceLoaded,      \* the instances whose load() has resolved
    loadCalls,           \* history: the instances load() was called on, in order
    callerPc,            \* loadFFmpeg: where each call stands
    callerInstance,      \* loadFFmpeg: the instance each call awaits load() on
    callCount,           \* number of calls each caller has made
    results,             \* history: the instances loadFFmpeg has returned
    lastOp               \* history: the handler that ran last and its arguments

appVars    == <<segments, nextId, playbackMode, timelineTime, isTimelinePlaying, activeAsset>>
playerVars == <<activeVideoSeg, activeMainImageSeg, activeOverlaySeg, activeAudioSeg,
                videoSrc, videoPaused, audioSrc, audioPaused, videoTime, audioTime>>
engineVars == <<ffmpeg, instances, instanceLoaded, loadCalls, callerPc, callerInstance,
                callCount, results>>
pipelineVars == <<ffmpegLoaded, engineFiles, renderPc, renderSegments, videoSegments,
                  audioSegments, clipIndex, clipNames, audioIndex, audioInputArgs,
                  filterParts, concatList, finalOutput, renderError, progressLog,
                  progressOps, logs,
                  engineOps, clipOutcomes, audioOutcomes>>
modalVars  == <<renderStarted, renderCalls>>
renderVars == <<pipelineVars, engineVars, modalVars>>
clockVars  == <<mounted, scheduled, reqRef>>
vars       == <<appVars, playerVars, lastRun, clockVars, renderVars, lastOp>>

----------------------------------------------------------------------------
(* Bounds of the model *)

SubDiv == 4          \* sub-frame resolution: a frame is SubDiv units
MaxSegs == 3         \* no segment is added to a store of this many segments
MaxScenes == 1       \* scenes of an approved storyboard

MaxIds == MaxSegs - 2   \* no segment is created once this many ids were drawn
MaxCalls == 2        \* calls of loadFFmpeg made by one caller

(* Program constants *)

FPS == 30
DefaultDropDuration == 4
DefaultOverlayDuration == 5
SceneDuration == 5
EmptyContentDuration == 10
CoordUnit == 100     \* a normalized coordinate 0..1 is held in hundredths (percent)

UnitsPerSecond == FPS * SubDiv

Sec(n) == n * UnitsPerSecond     \* n seconds
Frames(n) == n * SubDiv          \* n whole frames
Tenth(n) == (n * UnitsPerSecond) \div 10   \* n tenths of a second

Undefined == "undefined"
Null == [id |-> "null"]
NoUrl == <<>>

VIDEO_MAIN == "VIDEO_MAIN"
OVERLAY == "OVERLAY"
AUDIO_TRACK == "AUDIO"
TrackType == {VIDEO_MAIN, OVERLAY, AUDIO_TRACK}

IMAGE == "IMAGE"
VIDEO == "VIDEO"
AUDIO == "AUDIO"

----------------------------------------------------------------------------
(* Number helpers *)

\* time * 30 and frames / 30, in the units above
TimeToFrames(t) == (t * FPS * SubDiv) \div UnitsPerSecond
FramesToTime(f) == (f * UnitsPerSecond) \div (FPS * SubDiv)

MathFloor(f) == (f \div SubDiv) * SubDiv
MathCeil(f) == -(((-f) \div SubDiv) * SubDiv)
MathRound(f) == ((2 * f + SubDiv) \div (2 * SubDiv)) * SubDiv
MathMax(a, b) == IF a >= b THEN a ELSE b
MathMin(a, b) == IF a <= b THEN a ELSE b
MathAbs(a) == IF a >= 0 THEN a ELSE -a

\* the drift tolerance of the surfaces, 0.3 s
DriftTolerance == (3 * UnitsPerSecond) \div 10

SetMax(S) == CHOOSE m \in S : \A n \in S : n <= m
SetMin(S) == CHOOSE m \in S : \A n \in S : m <= n

----------------------------------------------------------------------------
(* Asset catalog: one asset of each media kind.  duration 0 stands for an  *)
(* asset without metadata.duration.                                        *)

AssetImg == [id |-> "img", type |-> IMAGE, url |-> <<"i">>, duration |-> 0]
AssetVid == [id |-> "vid", type |-> VIDEO, url |-> <<"v">>, duration |-> Sec(2) + 1]
AssetAud == [id |-> "aud", type |-> AUDIO, url |-> <<"a">>, duration |-> Sec(3)]
Assets == {AssetImg, AssetVid, AssetAud}

\* Inputs of the handlers
DropTimes == {0, Sec(1) + 2}
MoveTargets == {Frames(0), Frames(120)}
SeekTimes == {0, Sec(4), Sec(100)}
TickDeltas == {Sec(2)}
OverlayPositions == {<<0, CoordUnit>>}   \* dropped at the left edge, bottom
DropTargets == {<<AssetImg, VIDEO_MAIN>>, <<AssetImg, OVERLAY>>, <<AssetVid, VIDEO_MAIN>>,
                <<AssetVid, AUDIO_TRACK>>, <<AssetAud, AUDIO_TRACK>>}
OverlayAssets == {AssetImg}
PlayerDropTargets == {<<AssetVid, VIDEO_MAIN>>}
PlayerDropTimes == {Sec(1) + 2}
PlayerMoveTargets == {Frames(60)}
PlayerAssets == {AssetImg, AssetVid}
PlayerSeekTimes == {Sec(4), Sec(100)}
DriftSeekTimes == {Sec(12), Sec(12) + Tenth(5)}
DriftTickDeltas == {Tenth(2)}
MediaDeltas == {Tenth(1), Tenth(4)}

----------------------------------------------------------------------------
(* Segment store *)

Seg(id, assetId, assetUrl, assetType, trackId, startFrame, endFrame, duration, link, meta) ==
    [id |-> id, assetId |-> assetId, assetUrl |-> assetUrl, assetType |-> assetType,
     trackId |-> trackId, startFrame |-> startFrame, endFrame |-> endFrame,
     duration |-> duration, linkedSegmentId |-> link, metadata |-> meta]

InitialSegments ==
    << Seg("1", "start", <<"j">>, Undefined, VIDEO_MAIN, Frames(0), Frames(120), Sec(4), Undefined, <<>>),
       Seg("2", "mid", <<"b">>, Undefined, VIDEO_MAIN, Frames(121), Frames(240), Sec(4), Undefined, <<>>) >>

RandomUUID(n) == "u" \o ToString(n)
AudioId(segId) == "audio-" \o segId

SegIds(segs) == {segs[i].id : i \in 1..Len(segs)}
SegById(segs, id) ==
    LET I == {i \in 1..Len(segs) : segs[i].id = id}
    IN  IF I = {} THEN Null ELSE segs[SetMin(I)]

MaxEndFrame(segs) == SetMax({segs[i].endFrame : i \in 1..Len(segs)})

contentDuration(segs) ==
    IF Len(segs) = 0 THEN Sec(EmptyContentDuration)
    ELSE FramesToTime(MaxEndFrame(segs))

\* asset.metadata?.duration || dflt
DurationOr(asset, dflt) == IF asset.duration # 0 THEN asset.duration ELSE Sec(dflt)

\* mutant: the base segment of a video lands on the drop track
DropOnTimelineSegments_OnDropTrack(asset, trackId, time, segId) ==
    LET startFrame == MathFloor(TimeToFrames(time))
        duration == DurationOr(asset, DefaultDropDuration)
        lengthInFrames == MathCeil(TimeToFrames(duration))
        base == Seg(segId, asset.id, asset.url, asset.type, trackId,
                    startFrame, startFrame + lengthInFrames, duration,
                    IF asset.type = VIDEO THEN AudioId(segId) ELSE Undefined, <<>>)
        audio == Seg(AudioId(segId), asset.id, asset.url, Undefined, AUDIO_TRACK,
                     startFrame, startFrame + lengthInFrames, duration, segId, <<>>)
    IN  IF asset.type = VIDEO THEN <<base, audio>> ELSE <<base>>

DropOnTimelineSegments(asset, trackId, time, segId) ==
    LET startFrame == MathFloor(TimeToFrames(time))
        duration == DurationOr(asset, DefaultDropDuration)
        lengthInFrames == MathCeil(TimeToFrames(duration))
        base == Seg(segId, asset.id, asset.url, asset.type,
                    IF asset.type = VIDEO THEN VIDEO_MAIN ELSE trackId,
                    startFrame, startFrame + lengthInFrames, duration,
                    IF asset.type = VIDEO THEN AudioId(segId) ELSE Undefined, <<>>)
        audio == Seg(AudioId(segId), asset.id, asset.url, Undefined, AUDIO_TRACK,
                     startFrame, startFrame + lengthInFrames, duration, segId, <<>>)
    IN  IF asset.type = VIDEO THEN <<base, audio>> ELSE <<base>>

\* mutant: the cascade follows the segments that name id
UpdateSegments_CascadeToNamers(prev, id, newStart) ==
    [i \in 1..Len(prev) |->
        LET s == prev[i] IN
        IF s.id = id \/ s.linkedSegmentId = id
        THEN [s EXCEPT !.startFrame = newStart,
                       !.endFrame = newStart + TimeToFrames(s.duration)]
        ELSE s]

UpdateSegments(prev, id, newStart) ==
    LET movedSeg == SegById(prev, id)
    IN  [i \in 1..Len(prev) |->
            LET s == prev[i] IN
            IF s.id = id
            THEN [s EXCEPT !.startFrame = newStart,
                           !.endFrame = newStart + TimeToFrames(s.duration)]
            ELSE IF movedSeg # Null /\ movedSeg.linkedSegmentId = s.id
            THEN [s EXCEPT !.startFrame = newStart,
                           !.endFrame = newStart + TimeToFrames(s.duration)]
            ELSE s]

\* mutant: only the segment itself is cleared
UnlinkSegments_OneSided(prev, id) ==
    [i \in 1..Len(prev) |->
        IF prev[i].id = id
        THEN [prev[i] EXCEPT !.linkedSegmentId = Undefined]
        ELSE prev[i]]

UnlinkSegments(prev, id) ==
    [i \in 1..Len(prev) |->
        IF prev[i].id = id \/ prev[i].linkedSegmentId = id
        THEN [prev[i] EXCEPT !.linkedSegmentId = Undefined]
        ELSE prev[i]]

DeleteSegments(prev, id) == SelectSeq(prev, LAMBDA s : s.id # id)

OverlaySegment(asset, x, y, time, segId) ==
    LET duration == DurationOr(asset, DefaultOverlayDuration)
        lengthInFrames == MathCeil(TimeToFrames(duration))
    IN  Seg(segId, asset.id, asset.url, Undefined, OVERLAY,
            MathFloor(TimeToFrames(time)),
            MathFloor(TimeToFrames(time)) + lengthInFrames,
            duration, Undefined, <<x, y>>)

\* one storyboard scene: the video segment and, when withAudio, its voice-over
SceneSegments(currentStartFrame, videoSegId, audioSegId, withAudio) ==
    LET duration == Sec(SceneDuration)
        lengthInFrames == TimeToFrames(duration)
        video == Seg(videoSegId, "veo", <<"s">>, VIDEO, VIDEO_MAIN,
                     currentStartFrame, currentStartFrame + lengthInFrames,
                     duration, Undefined, <<>>)
        audio == Seg(audioSegId, "tts", <<"t">>, AUDIO, AUDIO_TRACK,
                     currentStartFrame, currentStartFrame + lengthInFrames,
                     duration, videoSegId, <<>>)
    IN  IF withAudio THEN <<video, audio>> ELSE <<video>>

RECURSIVE ApproveSegments(_, _, _, _)
\* the loop over storyboardSegments: audioFlags[k] is includeAudio && scene.audio
ApproveSegments(currentStartFrame, audioFlags, k, idBase) ==
    IF k > Len(audioFlags) THEN <<>>
    ELSE SceneSegments(currentStartFrame, RandomUUID(idBase + 1), RandomUUID(idBase + 2),
                       audioFlags[k])
         \o ApproveSegments(currentStartFrame + TimeToFrames(Sec(SceneDuration)),
                            audioFlags, k + 1, idBase + 2)

----------------------------------------------------------------------------
(* Playback resolver (PlayerPanel) *)

\* mutant: the end frame is included
InInterval_Inclusive(s, currentFrame) ==
    currentFrame >= s.startFrame /\ currentFrame <= s.endFrame

InInterval(s, currentFrame) == currentFrame >= s.startFrame /\ currentFrame < s.endFrame

\* mutant: the track of the segment is not tested
FindActive_AnyTrack(segs, track, currentFrame) ==
    LET I == {i \in 1..Len(segs) : InInterval(segs[i], currentFrame)}
    IN  IF I = {} THEN Null ELSE segs[SetMin(I)]

\* mutant: the matching segment with the lowest startFrame is selected
FindActive_EarliestStart(segs, track, currentFrame) ==
    LET I == {i \in 1..Len(segs) : segs[i].trackId = track /\ InInterval(segs[i], currentFrame)}
        J == {i \in I : \A k \in I : segs[i].startFrame <= segs[k].startFrame}
    IN  IF I = {} THEN Null ELSE segs[SetMin(J)]

\* segments.find(s => s.trackId === track && ...) || null
FindActive(segs, track, currentFrame) ==
    LET I == {i \in 1..Len(segs) : segs[i].trackId = track /\ InInterval(segs[i], currentFrame)}
    IN  IF I = {} THEN Null ELSE segs[SetMin(I)]

\* String.prototype.includes on urls (sequences of characters)
Includes(src, url) ==
    \E i \in 0..(Len(src) - Len(url)) : SubSeq(src, i + 1, i + Len(url)) = url

\* the overlay image's style: left and top in percent,
\* (metadata?.overlayX || 0.5) * 100 and (metadata?.overlayY || 0.5) * 100
OverlayStyle(seg) ==
    LET half == CoordUnit \div 2
        x == IF Len(seg.metadata) = 0 \/ seg.metadata[1] = 0 THEN half ELSE seg.metadata[1]
        y == IF Len(seg.metadata) = 0 \/ seg.metadata[2] = 0 THEN half ELSE seg.metadata[2]
    IN  [left |-> (x * 100) \div CoordUnit, top |-> (y * 100) \div CoordUnit]

\* the src attribute the <video> element is rendered with
VideoSrcProp(mode, asset) ==
    IF mode = "ASSET" /\ asset # Null /\ asset.type = VIDEO THEN asset.url ELSE NoUrl

\* mutant: every difference is corrected
DriftExceeded_AnyDifference(currentTime, localTime) == currentTime # localTime

\* Drift correction test: Math.abs(currentTime - localTime) > 0.3
DriftExceeded(currentTime, localTime) == MathAbs(currentTime - localTime) > DriftTolerance

\* a media element: its src, paused and currentTime
Surface(src, paused, currentTime) == [src |-> src, paused |-> paused, currentTime |-> currentTime]

\* mutant: play whatever the transport state
PlayOrPause_AlwaysPlay(isPlaying) == [op |-> "play", catch |-> TRUE]

\* `if (isPlaying) el.play().catch(() => {}); else el.pause();`: the promise
\* of play() has a rejection handler that does nothing
PlayOrPause(isPlaying) ==
    IF isPlaying THEN [op |-> "play", catch |-> TRUE] ELSE [op |-> "pause"]

NoRun == [ran |-> FALSE, videoCmds |-> <<>>, audioCmds |-> <<>>]

\* The timeline effect of PlayerPanel, one resolver run: the composition
\* state it sets, the media elements after it and the commands it issued to
\* them.  closureVideoSeg is activeVideoSeg as captured by the effect closure.
\* Assigning src and load() reset the element's currentTime to 0.
TimelineEffect(segs, time, isPlaying, closureVideoSeg, video, audio) ==
    LET currentFrame == TimeToFrames(time)
        mainSeg == FindActive(segs, VIDEO_MAIN, currentFrame)
        ovl == FindActive(segs, OVERLAY, currentFrame)
        aud == FindActive(segs, AUDIO_TRACK, currentFrame)
        mainIsVideo == mainSeg # Null /\ mainSeg.assetType = VIDEO
        mainIsImage == mainSeg # Null /\ mainSeg.assetType = IMAGE
        \* video element
        vSync == mainIsVideo /\ mainSeg.assetUrl # NoUrl
        vLocalTime == time - FramesToTime(mainSeg.startFrame)
        vLoad == ~Includes(video.src, mainSeg.assetUrl)
        vTime1 == IF vLoad THEN 0 ELSE video.currentTime
        vSeek == DriftExceeded(vTime1, vLocalTime)
        vClear == closureVideoSeg = Null
        videoCmds ==
            IF vSync
            THEN (IF vLoad THEN <<[op |-> "src", url |-> mainSeg.assetUrl], [op |-> "load"]>>
                  ELSE <<>>)
                 \o (IF vSeek THEN <<[op |-> "currentTime", t |-> vLocalTime]>> ELSE <<>>)
                 \o <<PlayOrPause(isPlaying)>>
            ELSE <<[op |-> "pause"]>>
                 \o (IF vClear THEN <<[op |-> "src", url |-> NoUrl]>> ELSE <<>>)
        videoAfter ==
            IF vSync
            THEN Surface(IF vLoad THEN mainSeg.assetUrl ELSE video.src,
                         ~isPlaying,
                         IF vSeek THEN vLocalTime ELSE vTime1)
            ELSE Surface(IF vClear THEN NoUrl ELSE video.src,
                         TRUE,
                         IF vClear THEN 0 ELSE video.currentTime)
        \* audio element
        aSync == aud # Null /\ aud.assetUrl # NoUrl
        aLocalTime == time - FramesToTime(aud.startFrame)
        aLoad == ~Includes(audio.src, aud.assetUrl)
        aTime1 == IF aLoad THEN 0 ELSE audio.currentTime
        aSeek == DriftExceeded(aTime1, aLocalTime)
        audioCmds ==
            IF aSync
            THEN (IF aLoad THEN <<[op |-> "src", url |-> aud.assetUrl], [op |-> "load"]>>
                  ELSE <<>>)
                 \o (IF aSeek THEN <<[op |-> "currentTime", t |-> aLocalTime]>> ELSE <<>>)
                 \o <<PlayOrPause(isPlaying)>>
            ELSE <<[op |-> "pause"]>>
        audioAfter ==
            IF aSync
            THEN Surface(IF aLoad THEN aud.assetUrl ELSE audio.src,
                         ~isPlaying,
                         IF aSeek THEN aLocalTime ELSE aTime1)
            ELSE Surface(audio.src, TRUE, audio.currentTime)
    IN  [activeVideoSeg |-> IF mainIsVideo THEN mainSeg ELSE Null,
         activeMainImageSeg |-> IF mainIsImage THEN mainSeg ELSE Null,
         activeOverlaySeg |-> ovl,
         activeAudioSeg |-> aud,
         video |-> videoAfter,
         audio |-> audioAfter,
         videoCmds |-> videoCmds,
         audioCmds |-> audioCmds]

\* One render of PlayerPanel followed by its timeline effect, for the App
\* state reached by the handler (primed).  segsSet: setSegments was called
\* (a new array, so the effect's dependency changed); remount: the panel is
\* mounted anew (fresh elements and state).
PlayerRender(segsSet, remount) ==
    LET propOld == IF remount THEN NoUrl ELSE VideoSrcProp(playbackMode, activeAsset)
        propNew == VideoSrcProp(playbackMode', activeAsset')
        propSet == remount \/ propNew # propOld
        video0 == Surface(IF propSet THEN propNew ELSE videoSrc,
                          IF remount THEN TRUE
                          ELSE IF propNew # propOld /\ propNew # NoUrl THEN TRUE
                          ELSE videoPaused,
                          IF propSet THEN 0 ELSE videoTime)
        audio0 == IF remount THEN Surface(NoUrl, TRUE, 0)
                  ELSE Surface(audioSrc, audioPaused, audioTime)
        \* activeVideoSeg as captured by the effect closure of this render
        closureVideoSeg == IF remount THEN Null ELSE activeVideoSeg
        depsChanged == \/ remount
                       \/ segsSet
                       \/ playbackMode' # playbackMode
                       \/ timelineTime' # timelineTime
                       \/ isTimelinePlaying' # isTimelinePlaying
    IN  IF depsChanged /\ playbackMode' = "TIMELINE"
        THEN \E run \in {TimelineEffect(segments', timelineTime', isTimelinePlaying',
                                        closureVideoSeg, video0, audio0)} :
             /\ activeVideoSeg' = run.activeVideoSeg
             /\ activeMainImageSeg' = run.activeMainImageSeg
             /\ activeOverlaySeg' = run.activeOverlaySeg
             /\ activeAudioSeg' = run.activeAudioSeg
             /\ videoSrc' = run.video.src
             /\ videoPaused' = run.video.paused
             /\ videoTime' = run.video.currentTime
             /\ audioSrc' = run.audio.src
             /\ audioPaused' = run.audio.paused
             /\ audioTime' = run.audio.currentTime
             /\ lastRun' = [ran |-> TRUE, videoCmds |-> run.videoCmds,
                            audioCmds |-> run.audioCmds]
        ELSE \E video \in {video0}, audio \in {audio0} :
             /\ activeVideoSeg' = closureVideoSeg
             /\ activeMainImageSeg' = IF remount THEN Null ELSE activeMainImageSeg
             /\ activeOverlaySeg' = IF remount THEN Null ELSE activeOverlaySeg
             /\ activeAudioSeg' = IF remount THEN Null ELSE activeAudioSeg
             /\ videoSrc' = video.src
             /\ videoPaused' = video.paused
             /\ videoTime' = video.currentTime
             /\ audioSrc' = audio.src
             /\ audioPaused' = audio.paused
             /\ audioTime' = audio.currentTime
             /\ lastRun' = NoRun

----------------------------------------------------------------------------
\* the callers of the exported loadFFmpeg
Callers == {"a", "b"}

\* mutant: the operation is started and not awaited
EngineOp_NotAwaited(op, file) == [op |-> op, file |-> file, awaited |-> FALSE]

\* `await ff.op(file)`: the operation is started and the run goes on only
\* after its promise has settled
EngineOp(op, file) == [op |-> op, file |-> file, awaited |-> TRUE]
FetchOp(url) == [op |-> "fetch", url |-> url]

\* The lines of the log.  A line is the text handleProgress builds from a
\* progress event, `[ p%] stage`; the segment label inside the encoding stage
\* is left out.
InitialLogs == <<[p |-> 0, kind |-> "init", of |-> 0, n |-> 0]>>
Stage(kind, of, n) == [kind |-> kind, of |-> of, n |-> n]
DownloadingStage == Stage("Downloading FFmpeg WASM core...", 0, 0)
EncodingStage(i, n) == Stage("Encoding clip", i + 1, n)
ConcatenatingStage(n) == Stage("Concatenating clips...", 0, n)
MixingStage(n) == Stage("Mixing audio track(s)...", 0, n)
PackagingStage == Stage("Packaging final MP4...", 0, 0)
CompleteStage == Stage("Export complete!", 0, 0)

\* prev.slice(-n)
SliceLast(prev, n) ==
    IF Len(prev) <= n THEN prev ELSE SubSeq(prev, Len(prev) - n + 1, Len(prev))

\* RenderModal handleProgress: setLogs(prev => [...prev.slice(-50), line])
handleProgress(prev, p, s) ==
    Append(SliceLast(prev, 50), [p |-> p, kind |-> s.kind, of |-> s.of, n |-> s.n])

\* RenderModal: `if (renderStarted.current) return;`
AlreadyStarted_Never(started) == FALSE
AlreadyStarted(started) == started

\* The effect of RenderModal, run with the segments prop of this render: past
\* the renderStarted guard it calls renderTimeline(segments, assets,
\* handleProgress), which runs up to the await of ffmpeg.load() inside
\* loadFFmpeg.
RenderModalEffect(started, segs) ==
    IF AlreadyStarted(started)
    THEN UNCHANGED <<pipelineVars, modalVars>>
    ELSE /\ renderStarted' = TRUE
         /\ renderCalls' = renderCalls + 1
         /\ renderSegments' = segs
         /\ IF ffmpegLoaded
            THEN /\ renderPc' = "loaded"
                 /\ logs' = InitialLogs
                 /\ progressLog' = <<>>
                 /\ progressOps' = <<>>
                 /\ engineOps' = <<>>
            ELSE /\ renderPc' = "loading"
                 /\ progressLog' = <<20>>
                 /\ progressOps' = <<0>>
                 /\ logs' = handleProgress(InitialLogs, 20, DownloadingStage)
                 /\ engineOps' = <<EngineOp("load", "ffmpeg-core")>>
         /\ videoSegments' = <<>>
         /\ audioSegments' = <<>>
         /\ clipIndex' = 0
         /\ clipNames' = <<>>
         /\ audioIndex' = 0
         /\ audioInputArgs' = <<>>
         /\ filterParts' = <<>>
         /\ concatList' = <<>>
         /\ finalOutput' = "video_only.mp4"
         /\ renderError' = "none"
         /\ clipOutcomes' = <<>>
         /\ audioOutcomes' = <<>>
         /\ UNCHANGED <<ffmpegLoaded, engineFiles>>

\* A render of App while the dialog is open hands RenderModal the new
\* segments prop, and its effect runs again (deps [segments, assets])
RenderModalRender ==
    IF renderPc # "closed" /\ segments' # segments
    THEN /\ RenderModalEffect(renderStarted, segments')
         /\ UNCHANGED engineVars
    ELSE UNCHANGED renderVars

\* Animation frames.  A scheduled callback is the loop closure of one run of
\* the clock effect: it carries the isTimelinePlaying and contentDuration it
\* was created with, under the handle requestAnimationFrame returned for it.
\* A handle is only ever held in reqRef.current, so the smallest free one
\* stands for the fresh handle the browser returns.
LoopCallback(handle, playing, duration) ==
    [id |-> handle, isTimelinePlaying |-> playing, contentDuration |-> duration]
Handles(sched) == {cb.id : cb \in sched}
requestAnimationFrame(sched) ==
    SetMin({h \in 1..(Cardinality(sched) + 1) : h \notin Handles(sched)})
cancelAnimationFrame_Noop(sched, handle) == sched
cancelAnimationFrame(sched, handle) == {cb \in sched : cb.id # handle}

\* The clock effect of a render: when isTimelinePlaying or contentDuration
\* changed, the cleanup of the last run cancels reqRef.current and the new run
\* requests a frame for a new loop closure.  Handlers run on a mounted App.
ClockEffect(sched, ref) ==
    IF \/ isTimelinePlaying' # isTimelinePlaying
       \/ contentDuration(segments') # contentDuration(segments)
    THEN \E cleaned \in {cancelAnimationFrame(sched, ref)} :
         \E handle \in {requestAnimationFrame(cleaned)} :
            /\ scheduled' = cleaned \cup {LoopCallback(handle, isTimelinePlaying',
                                                       contentDuration(segments'))}
            /\ reqRef' = handle
    ELSE /\ scheduled' = sched
         /\ reqRef' = ref
ClockRender ==
    /\ mounted
    /\ UNCHANGED mounted
    /\ ClockEffect(scheduled, reqRef)

(* Initial state: App mounted in TIMELINE mode, PlayerPanel mounted and its *)
(* effect run once.                                                        *)

Init ==
    /\ segments = InitialSegments
    /\ nextId = 0
    /\ playbackMode = "TIMELINE"
    /\ timelineTime = 0
    /\ isTimelinePlaying = FALSE
    /\ activeAsset = Null
    /\ activeVideoSeg = Null
    /\ activeMainImageSeg = Null
    /\ activeOverlaySeg = Null
    /\ activeAudioSeg = Null
    /\ videoSrc = NoUrl
    /\ videoPaused = TRUE
    /\ audioSrc = NoUrl
    /\ audioPaused = TRUE
    /\ videoTime = 0
    /\ audioTime = 0
    /\ lastRun = [ran |-> TRUE, videoCmds |-> <<[op |-> "pause"], [op |-> "src", url |-> NoUrl]>>,
                  audioCmds |-> <<[op |-> "pause"]>>]
    /\ lastOp = [name |-> "mount", id |-> Undefined]
    /\ renderStarted = FALSE
    /\ renderCalls = 0
    /\ mounted = TRUE
    /\ scheduled = {LoopCallback(1, FALSE, contentDuration(InitialSegments))}
    /\ reqRef = 1
    /\ ffmpegLoaded = FALSE
    /\ engineFiles = {}
    /\ renderPc = "closed"
    /\ renderSegments = <<>>
    /\ videoSegments = <<>>
    /\ audioSegments = <<>>
    /\ clipIndex = 0
    /\ clipNames = <<>>
    /\ audioIndex = 0
    /\ audioInputArgs = <<>>
    /\ filterParts = <<>>
    /\ concatList = <<>>
    /\ finalOutput = "video_only.mp4"
    /\ renderError = "none"
    /\ progressLog = <<>>
    /\ progressOps = <<>>
    /\ logs = <<>>
    /\ engineOps = <<>>
    /\ clipOutcomes = <<>>
    /\ audioOutcomes = <<>>
    /\ ffmpeg = 0
    /\ instances = 0
    /\ instanceLoaded = {}
    /\ loadCalls = <<>>
    /\ callerPc = [c \in Callers |-> "idle"]
    /\ callerInstance = [c \in Callers |-> 0]
    /\ callCount = [c \in Callers |-> 0]
    /\ results = {}

----------------------------------------------------------------------------
(* Handlers of App *)

handleDropAssetOnTimeline(asset, trackId, time) ==
    LET new == DropOnTimelineSegments(asset, trackId, time, RandomUUID(nextId + 1))
    IN  /\ segments' = segments \o new
        /\ nextId' = nextId + 1
        /\ UNCHANGED <<playbackMode, timelineTime, isTimelinePlaying, activeAsset>>
        /\ PlayerRender(TRUE, FALSE)
        /\ lastOp' = [name |-> "drop", id |-> RandomUUID(nextId + 1),
                      assetType |-> asset.type, trackId |-> trackId]
        /\ RenderModalRender
        /\ ClockRender

\* Timeline drag: mouse-up on segment id, deltaFrames whole frames
handleUpdateSegment(id, newStartFrame) ==
    /\ id \in SegIds(segments)
    /\ segments' = UpdateSegments(segments, id, newStartFrame)
    /\ UNCHANGED <<nextId, playbackMode, timelineTime, isTimelinePlaying, activeAsset>>
    /\ PlayerRender(TRUE, FALSE)
    /\ lastOp' = [name |-> "update", id |-> id]
    /\ RenderModalRender
    /\ ClockRender

handleSegmentMouseUp(id, target) ==
    LET originalStartFrame == SegById(segments, id).startFrame
        deltaFrames == target - MathFloor(originalStartFrame)
    IN  /\ id \in SegIds(segments)
        /\ handleUpdateSegment(id, MathMax(0, originalStartFrame + deltaFrames))

handleDropAssetOnPlayer(asset, x, y) ==
    /\ segments' = Append(segments, OverlaySegment(asset, x, y, timelineTime, RandomUUID(nextId + 1)))
    /\ nextId' = nextId + 1
    /\ UNCHANGED <<playbackMode, timelineTime, isTimelinePlaying, activeAsset>>
    /\ PlayerRender(TRUE, FALSE)
    /\ lastOp' = [name |-> "overlay", id |-> RandomUUID(nextId + 1)]
    /\ RenderModalRender
    /\ ClockRender

handleUnlink(id) ==
    /\ segments' = UnlinkSegments(segments, id)
    /\ UNCHANGED <<nextId, playbackMode, timelineTime, isTimelinePlaying, activeAsset>>
    /\ PlayerRender(TRUE, FALSE)
    /\ lastOp' = [name |-> "unlink", id |-> id]
    /\ RenderModalRender
    /\ ClockRender

handleDeleteSegment(id) ==
    /\ segments' = DeleteSegments(segments, id)
    /\ UNCHANGED <<nextId, playbackMode, timelineTime, isTimelinePlaying, activeAsset>>
    /\ PlayerRender(TRUE, FALSE)
    /\ lastOp' = [name |-> "delete", id |-> id]
    /\ RenderModalRender
    /\ ClockRender

\* StoryboardView replaces the editor while it is shown, so PlayerPanel is
\* mounted anew when the approval returns to the editor.
handleDirectorApprove(audioFlags) ==
    LET currentStartFrame == IF Len(segments) > 0 THEN MaxEndFrame(segments) ELSE 0
        newSegments == ApproveSegments(currentStartFrame, audioFlags, 1, nextId)
    IN  /\ segments' = segments \o newSegments
        /\ nextId' = nextId + 2 * Len(audioFlags)
        /\ UNCHANGED <<playbackMode, timelineTime, isTimelinePlaying, activeAsset>>
        /\ PlayerRender(TRUE, TRUE)
        /\ lastOp' = [name |-> "approve", id |-> RandomUUID(nextId + 1)]
        /\ RenderModalRender
        /\ ClockRender

toggleTimelinePlay ==
    /\ IF timelineTime >= contentDuration(segments)
       THEN /\ timelineTime' = 0
            /\ playbackMode' = "TIMELINE"
            /\ isTimelinePlaying' = TRUE
       ELSE IF playbackMode # "TIMELINE"
       THEN /\ playbackMode' = "TIMELINE"
            /\ isTimelinePlaying' = TRUE
            /\ UNCHANGED timelineTime
       ELSE /\ isTimelinePlaying' = ~isTimelinePlaying
            /\ UNCHANGED <<playbackMode, timelineTime>>
    /\ UNCHANGED <<segments, nextId, activeAsset>>
    /\ PlayerRender(FALSE, FALSE)
    /\ lastOp' = [name |-> "toggle", id |-> Undefined]
    /\ RenderModalRender
    /\ ClockRender

\* mutant: the playhead moves but the mode is left as it is
handleSeek_KeepsMode(t) ==
    /\ timelineTime' = MathMin(MathMax(0, t), contentDuration(segments))
    /\ UNCHANGED <<segments, nextId, playbackMode, isTimelinePlaying, activeAsset>>
    /\ PlayerRender(FALSE, FALSE)
    /\ lastOp' = [name |-> "seek", id |-> Undefined]
    /\ RenderModalRender
    /\ ClockRender

handleSeek(t) ==
    /\ timelineTime' = MathMin(MathMax(0, t), contentDuration(segments))
    /\ playbackMode' = "TIMELINE"
    /\ UNCHANGED <<segments, nextId, isTimelinePlaying, activeAsset>>
    /\ PlayerRender(FALSE, FALSE)
    /\ lastOp' = [name |-> "seek", id |-> Undefined]
    /\ RenderModalRender
    /\ ClockRender

\* mutant: selecting an asset leaves the transport as it was
handleSelectAsset_KeepsTransport(asset) ==
    /\ activeAsset' = asset
    /\ playbackMode' = "ASSET"
    /\ UNCHANGED <<segments, nextId, timelineTime, isTimelinePlaying>>
    /\ PlayerRender(FALSE, FALSE)
    /\ lastOp' = [name |-> "select", id |-> Undefined]
    /\ RenderModalRender
    /\ ClockRender

handleSelectAsset(asset) ==
    /\ activeAsset' = asset
    /\ playbackMode' = "ASSET"
    /\ isTimelinePlaying' = FALSE
    /\ UNCHANGED <<segments, nextId, timelineTime>>
    /\ PlayerRender(FALSE, FALSE)
    /\ lastOp' = [name |-> "select", id |-> Undefined]
    /\ RenderModalRender
    /\ ClockRender

\* mutant: the clock stops only beyond the end
PastEnd_Beyond(nextTime, duration) == nextTime > duration

\* `if (nextTime >= contentDuration)`
PastEnd(nextTime, duration) == nextTime >= duration

\* Master clock loop: one animation frame, delta seconds after the last one.
\* The browser runs a scheduled callback cb, a loop closure that was playing
\* when its effect ran; the closure requests the next frame for itself and
\* stores the handle in reqRef.current.  State updates of an unmounted App
\* are dropped.
loop(delta) ==
    \E cb \in scheduled :
        /\ cb.isTimelinePlaying
        /\ IF mounted
           THEN /\ LET nextTime == timelineTime + delta
                   IN  IF PastEnd(nextTime, cb.contentDuration)
                       THEN /\ isTimelinePlaying' = FALSE
                            /\ timelineTime' = cb.contentDuration
                       ELSE /\ timelineTime' = nextTime
                            /\ UNCHANGED isTimelinePlaying
                /\ UNCHANGED <<segments, nextId, playbackMode, activeAsset>>
                /\ PlayerRender(FALSE, FALSE)
           ELSE /\ UNCHANGED <<appVars, playerVars>>
                /\ lastRun' = NoRun
        /\ lastOp' = [name |-> "tick", id |-> Undefined]
        /\ UNCHANGED <<renderVars, mounted>>
        /\ \E fired \in {scheduled \ {cb}} :
           \E handle \in {requestAnimationFrame(fired)} :
           \E rearmed \in {fired \cup {LoopCallback(handle, cb.isTimelinePlaying,
                                                     cb.contentDuration)}} :
              IF mounted
              THEN ClockEffect(rearmed, handle)
              ELSE scheduled' = rearmed /\ reqRef' = handle

\* The same callback for a closure that was paused when its effect ran: it
\* only records the timestamp and requests the next frame
loopPaused ==
    \E cb \in scheduled :
        /\ ~cb.isTimelinePlaying
        /\ \E fired \in {scheduled \ {cb}} :
           \E handle \in {requestAnimationFrame(fired)} :
              /\ scheduled' = fired \cup {LoopCallback(handle, cb.isTimelinePlaying,
                                                       cb.contentDuration)}
              /\ reqRef' = handle
        /\ UNCHANGED <<appVars, playerVars, renderVars, mounted>>
        /\ lastRun' = NoRun
        /\ lastOp' = [name |-> "frame", id |-> Undefined]

\* The App is torn down: the cleanup of the clock effect cancels the frame
\* whose handle reqRef.current holds
unmountApp ==
    /\ mounted
    /\ mounted' = FALSE
    /\ scheduled' = cancelAnimationFrame(scheduled, reqRef)
    /\ UNCHANGED <<appVars, playerVars, renderVars, reqRef>>
    /\ lastRun' = NoRun
    /\ lastOp' = [name |-> "unmount", id |-> Undefined]

----------------------------------------------------------------------------

\* Room(n): n more segments fit the bounded store, and fewer than MaxIds ids
\* have been drawn so far
Room(n) == Len(segments) + n <= MaxSegs /\ nextId < MaxIds

DropOnTimeline ==
    \E d \in DropTargets, t \in DropTimes :
        /\ Room(IF d[1].type = VIDEO THEN 2 ELSE 1)
        /\ handleDropAssetOnTimeline(d[1], d[2], t)
MoveSegment == \E id \in SegIds(segments), x \in MoveTargets : handleSegmentMouseUp(id, x)
DropOnPlayer ==
    \E a \in OverlayAssets, p \in OverlayPositions :
        /\ Room(1)
        /\ handleDropAssetOnPlayer(a, p[1], p[2])
\* the unlink button is shown on Main-Video segments that have a link
Unlink == \E i \in 1..Len(segments) :
             /\ segments[i].trackId = VIDEO_MAIN
             /\ segments[i].linkedSegmentId # Undefined
             /\ handleUnlink(segments[i].id)
\* the delete button is shown on Main-Video and Audio segments
Delete == \E i \in 1..Len(segments) :
             /\ segments[i].trackId \in {VIDEO_MAIN, AUDIO_TRACK}
             /\ handleDeleteSegment(segments[i].id)
Approve ==
    \E n \in 0..MaxScenes : \E audioFlags \in [1..n -> BOOLEAN] :
        /\ Room(n + Cardinality({k \in 1..n : audioFlags[k]}))
        /\ handleDirectorApprove(audioFlags)
\* the play button calls toggleTimelinePlay only in TIMELINE mode
TogglePlay == playbackMode = "TIMELINE" /\ toggleTimelinePlay
Seek == \E t \in SeekTimes : handleSeek(t)
SelectAsset == \E a \in Assets : handleSelectAsset(a)
Tick == \E d \in TickDeltas : loop(d)

\* The segment store under its mutations (the playhead stays at 0)
NextStore ==
    \/ DropOnTimeline
    \/ MoveSegment
    \/ DropOnPlayer
    \/ Unlink
    \/ Delete
    \/ Approve

SpecStore == Init /\ [][NextStore]_vars

\* Transport and resolver: every transport action, over a store that is
\* changed by drops, approvals, and moves and deletions of Main-Video segments
PlayerDrop ==
    \E d \in PlayerDropTargets, t \in PlayerDropTimes :
        /\ Room(IF d[1].type = VIDEO THEN 2 ELSE 1)
        /\ handleDropAssetOnTimeline(d[1], d[2], t)
PlayerOverlay ==
    \E a \in OverlayAssets, p \in OverlayPositions :
        /\ Room(1)
        /\ handleDropAssetOnPlayer(a, p[1], p[2])
PlayerApprove ==
    /\ Room(2)
    /\ handleDirectorApprove(<<TRUE>>)
PlayerMove ==
    \E i \in 1..Len(segments), x \in PlayerMoveTargets :
        /\ segments[i].trackId = VIDEO_MAIN
        /\ handleSegmentMouseUp(segments[i].id, x)
PlayerDelete ==
    \E i \in 1..Len(segments) :
        /\ segments[i].trackId = VIDEO_MAIN
        /\ handleDeleteSegment(segments[i].id)
PlayerSelect == \E a \in PlayerAssets : handleSelectAsset(a)
PlayerSeek == \E t \in PlayerSeekTimes : handleSeek(t)

NextPlayer ==
    \/ PlayerDrop
    \/ PlayerOverlay
    \/ PlayerApprove
    \/ PlayerMove
    \/ PlayerDelete
    \/ TogglePlay
    \/ PlayerSeek
    \/ PlayerSelect
    \/ Tick

SpecPlayer == Init /\ [][NextPlayer]_vars

\* Video source: two video assets, the location of one a substring of the
\* location of the other, dropped on the Main-Video track one after the other
\* and played; segments are deleted to make room
AssetClip == [id |-> "clip", type |-> VIDEO, url |-> <<"v", "2">>, duration |-> Sec(2)]
SourceAssets == {AssetVid, AssetClip}
SourceDropTimes == {0, Sec(3)}
SourceSeekTimes == {Sec(1), Sec(4)}
SourceTickDeltas == {Sec(1)}
SourceDrop ==
    \E a \in SourceAssets, t \in SourceDropTimes :
        /\ Len(segments) + 2 <= MaxSegs /\ nextId <= MaxIds
        /\ handleDropAssetOnTimeline(a, VIDEO_MAIN, t)
SourceDelete ==
    \E i \in 1..Len(segments) :
        /\ segments[i].assetType # VIDEO \/ segments[i].trackId = AUDIO_TRACK
        /\ handleDeleteSegment(segments[i].id)
SourceSeek == \E t \in SourceSeekTimes : handleSeek(t)
SourceTick == \E d \in SourceTickDeltas : loop(d)

NextSource ==
    \/ SourceDrop
    \/ SourceDelete
    \/ SourceSeek
    \/ SourceTick
    \/ TogglePlay

SpecSource == Init /\ [][NextSource]_vars

\* Transport to the end of the content: play, seeks into the content and to
\* its end, deletions that shorten it, and frames that keep arriving while
\* the App is mounted
TransportTickDeltas == {Sec(3)}
TransportSeekTimes == {Sec(2), Sec(100)}
TransportTick == \E d \in TransportTickDeltas : loop(d)
TransportSeek == \E t \in TransportSeekTimes : handleSeek(t)

NextTransport ==
    \/ TogglePlay
    \/ TransportSeek
    \/ TransportTick
    \/ PlayerDrop
    \/ PlayerDelete
    \/ loopPaused
    \/ unmountApp

SpecTransport == Init /\ [][NextTransport]_vars /\ WF_vars(TransportTick)

\* Master clock: the transport and the edits that change the content
\* duration, the frames of a paused loop, and the teardown of the App
NextClock ==
    \/ PlayerDrop
    \/ PlayerMove
    \/ PlayerDelete
    \/ TogglePlay
    \/ PlayerSeek
    \/ Tick
    \/ loopPaused
    \/ unmountApp

SpecClock == Init /\ [][NextClock]_vars

\* A playing media element advances its own currentTime by d, up to the
\* length of its media; no component state changes, so nothing is rendered.
MediaProgress(d) ==
    /\ \/ /\ ~videoPaused /\ videoSrc # NoUrl
          /\ videoTime + d <= Sec(SceneDuration)
          /\ videoTime' = videoTime + d
          /\ UNCHANGED audioTime
       \/ /\ ~audioPaused /\ audioSrc # NoUrl
          /\ audioTime + d <= Sec(SceneDuration)
          /\ audioTime' = audioTime + d
          /\ UNCHANGED videoTime
    /\ UNCHANGED <<appVars, activeVideoSeg, activeMainImageSeg, activeOverlaySeg,
                   activeAudioSeg, videoSrc, videoPaused, audioSrc, audioPaused>>
    /\ lastRun' = NoRun
    /\ lastOp' = [name |-> "media", id |-> Undefined]
    /\ UNCHANGED renderVars
    /\ ClockRender

\* Surface synchronisation: an approved scene (video and voice-over) played
\* and scrubbed near its end, while the media elements run on their own
DriftApprove ==
    /\ nextId = 0
    /\ handleDirectorApprove(<<TRUE>>)
DriftSeek == \E t \in DriftSeekTimes : handleSeek(t)
DriftTick == \E d \in DriftTickDeltas : loop(d)
Media == \E d \in MediaDeltas : MediaProgress(d)

NextDrift ==
    \/ DriftApprove
    \/ DriftSeek
    \/ TogglePlay
    \/ DriftTick
    \/ Media

SpecDrift == Init /\ [][NextDrift]_vars

----------------------------------------------------------------------------
(* Export: RenderModal and renderTimeline (ffmpegService).  The engine is   *)
(* the FFmpeg instance; fetchFile, writeFile and load either resolve or    *)
(* reject; exec resolves with the exit code of the command (0 on success)  *)
(* or rejects; readFile and deleteFile reject when the file does not exist.*)

NoVideoSegmentsError == "No video segments found on the timeline. Add clips to the V1 MAIN track first."
AllClipsFailedError == "All clips failed to encode. Check your media files."

SegmentOutcomes == {"ok", "fetchRejects", "writeRejects", "execRejects", "execNonZero"}
ExecOutcomes == {"ok", "execRejects", "execNonZero"}
AudioOutcomes == {"ok", "fetchRejects", "writeRejects"}
LoadOutcomes == {"ok", "loadRejects"}

\* the mimeType of the asset with this id in the catalog, if there is one
MimeType(assetId) ==
    CASE assetId = "img" -> "image/png"
      [] assetId = "vid" -> "video/mp4"
      [] assetId = "aud" -> "audio/mpeg"
      [] assetId = "veo" -> "video/mp4"
      [] assetId = "tts" -> "audio/wav"
      [] OTHER -> Undefined

getExtension(mimeType) ==
    CASE mimeType = "image/png" -> "png"
      [] mimeType = "image/jpeg" -> "jpg"
      [] mimeType = "image/webp" -> "webp"
      [] mimeType = "video/mp4" -> "mp4"
      [] mimeType = "video/webm" -> "webm"
      [] mimeType = "audio/wav" -> "wav"
      [] mimeType = "audio/mpeg" -> "mp3"
      [] mimeType = "audio/aac" -> "aac"
      [] OTHER -> "bin"

Or(a, b) == IF a = Undefined THEN b ELSE a

InputName(i, seg) ==
    "input_" \o ToString(i) \o "."
    \o getExtension(Or(MimeType(seg.assetId),
                       IF seg.assetType = IMAGE THEN "image/png" ELSE "video/mp4"))
ClipName(i) == "clip_" \o ToString(i) \o ".mp4"
AudioFileName(i, seg) ==
    "audio_" \o ToString(i) \o "." \o getExtension(Or(MimeType(seg.assetId), "audio/wav"))

\* mutant: the segments are taken in store order
SortByStartFrame_StoreOrder(segs) == segs

RECURSIVE SortByStartFrame(_)
\* .sort((a, b) => a.startFrame - b.startFrame), a stable sort
SortByStartFrame(segs) ==
    IF Len(segs) = 0 THEN <<>>
    ELSE LET rest == SortByStartFrame(SubSeq(segs, 1, Len(segs) - 1))
             x == segs[Len(segs)]
             k == Cardinality({i \in 1..Len(rest) : rest[i].startFrame <= x.startFrame})
         IN  SubSeq(rest, 1, k) \o <<x>> \o SubSeq(rest, k + 1, Len(rest))

\* mutant: the track of the segments is not tested
FilterTrack_AnyTrack(segs, track) == SelectSeq(segs, LAMBDA s : s.assetUrl # NoUrl)

\* segments.filter(s => s.trackId === track && s.assetUrl)
FilterTrack(segs, track) ==
    SelectSeq(segs, LAMBDA s : s.trackId = track /\ s.assetUrl # NoUrl)

Range(seq) == {seq[k] : k \in 1..Len(seq)}

RenderFrame(name) ==
    /\ UNCHANGED <<appVars, playerVars, clockVars, engineVars>>
    /\ lastRun' = NoRun
    /\ lastOp' = [name |-> name, id |-> Undefined]

\* The Export button opens RenderModal, whose effect calls renderTimeline
\* with the segments of this render; renderTimeline runs up to the await of
\* ffmpeg.load() inside loadFFmpeg.
openRenderModal ==
    /\ renderPc = "closed"
    /\ RenderModalEffect(FALSE, segments)
    /\ RenderFrame("export")

\* ffmpeg.load() settles
loadFFmpeg(outcome) ==
    /\ renderPc = "loading"
    /\ IF outcome = "ok"
       THEN /\ ffmpegLoaded' = TRUE
            /\ renderPc' = "loaded"
            /\ UNCHANGED renderError
       ELSE /\ renderPc' = "rejected"
            /\ renderError' = "load failed"
            /\ UNCHANGED ffmpegLoaded
    /\ UNCHANGED <<engineFiles, renderSegments, videoSegments, audioSegments, clipIndex,
                   clipNames, audioIndex, audioInputArgs, filterParts, concatList, finalOutput,
                   progressLog, progressOps, logs,
                   engineOps, clipOutcomes, audioOutcomes>>
    /\ RenderFrame("load")
    /\ UNCHANGED modalVars

\* renderTimeline after `await loadFFmpeg`: filter, sort, precondition
renderPrepare ==
    /\ renderPc = "loaded"
    /\ videoSegments' = SortByStartFrame(FilterTrack(renderSegments, VIDEO_MAIN))
    /\ audioSegments' = SortByStartFrame(FilterTrack(renderSegments, AUDIO_TRACK))
    /\ IF Len(videoSegments') = 0
       THEN /\ renderPc' = "rejected"
            /\ renderError' = NoVideoSegmentsError
       ELSE /\ renderPc' = "stage1"
            /\ UNCHANGED renderError
    /\ UNCHANGED <<ffmpegLoaded, engineFiles, renderSegments, clipIndex, clipNames,
                   audioIndex, audioInputArgs, filterParts, concatList, finalOutput, progressLog,
                   progressOps, logs, engineOps,
                   clipOutcomes, audioOutcomes>>
    /\ RenderFrame("prepare")
    /\ UNCHANGED modalVars

\* mutant: every Stage-1 iteration reports the same progress
stepProgress_Fixed(i, n) == 50

\* 0.05 + (i / videoSegments.length) * 0.55, per mille
stepProgress(i, n) == 50 + (550 * i) \div n

\* STEP 1, one iteration of the loop over videoSegments
normalizeSegment(outcome) ==
    LET i == clipIndex
        seg == videoSegments[i + 1]
        inputName == InputName(i, seg)
        outputName == ClipName(i)
        fetched == outcome # "fetchRejects"
        written == fetched /\ outcome # "writeRejects"
        pushed == outcome \in {"ok", "execNonZero"}
    IN  /\ renderPc = "stage1"
        /\ clipIndex < Len(videoSegments)
        /\ progressLog' = Append(progressLog, stepProgress(i, Len(videoSegments)))
        /\ progressOps' = Append(progressOps, Len(engineOps))
        /\ logs' = handleProgress(logs, stepProgress(i, Len(videoSegments)),
                                  EncodingStage(i, Len(videoSegments)))
        /\ engineOps' = engineOps \o <<FetchOp(seg.assetUrl)>>
                        \o (IF fetched THEN <<EngineOp("writeFile", inputName)>> ELSE <<>>)
                        \o (IF written THEN <<EngineOp("exec", outputName)>> ELSE <<>>)
                        \o <<EngineOp("deleteFile", inputName)>>
        /\ engineFiles' = (engineFiles \ {inputName})
                          \cup (IF outcome = "ok" THEN {outputName} ELSE {})
        /\ clipNames' = IF pushed THEN Append(clipNames, outputName) ELSE clipNames
        /\ clipOutcomes' = Append(clipOutcomes, outcome)
        /\ clipIndex' = clipIndex + 1
        /\ UNCHANGED <<ffmpegLoaded, renderPc, renderSegments, videoSegments, audioSegments,
                       audioIndex, audioInputArgs, filterParts, concatList, finalOutput, renderError, audioOutcomes>>
        /\ RenderFrame("normalize")
        /\ UNCHANGED modalVars

\* after the loop: the test of clipNames.length
checkClips ==
    /\ renderPc = "stage1"
    /\ clipIndex = Len(videoSegments)
    /\ IF Len(clipNames) = 0
       THEN /\ renderPc' = "rejected"
            /\ renderError' = AllClipsFailedError
       ELSE /\ renderPc' = "stage2"
            /\ UNCHANGED renderError
    /\ UNCHANGED <<ffmpegLoaded, engineFiles, renderSegments, videoSegments, audioSegments,
                   clipIndex, clipNames, audioIndex, audioInputArgs, filterParts,
                   concatList, finalOutput,
                   progressLog, progressOps, logs, engineOps, clipOutcomes, audioOutcomes>>
    /\ RenderFrame("check")
    /\ UNCHANGED modalVars

\* clipNames.map(name => `file '${name}'`).join('\n'); the text is held as
\* the sequence of its pieces
ConcatListOf(names) ==
    [k \in 1..(4 * Len(names) - 1) |->
        IF k % 4 = 1 THEN "file '"
        ELSE IF k % 4 = 2 THEN names[(k \div 4) + 1]
        ELSE IF k % 4 = 3 THEN "'"
        ELSE "\n"]

\* STEP 2 and the cleanup of the clips.  The concat command succeeds only on
\* clips that exist.
concatenateClips(outcome) ==
    LET single == Len(clipNames) = 1
        missing == \E k \in 1..Len(clipNames) : clipNames[k] \notin engineFiles
        rejects == IF single THEN missing ELSE outcome = "execRejects"
        produced == IF single THEN ~missing ELSE outcome = "ok"
        ops == IF single
               THEN <<EngineOp("readFile", clipNames[1])>>
                    \o (IF missing THEN <<>> ELSE <<EngineOp("writeFile", "video_only.mp4")>>)
               ELSE <<EngineOp("writeFile", "concat.txt"), EngineOp("exec", "video_only.mp4")>>
                    \o (IF rejects THEN <<>> ELSE <<EngineOp("deleteFile", "concat.txt")>>)
        cleanup == [k \in 1..Len(clipNames) |-> EngineOp("deleteFile", clipNames[k])]
        hasAudio == Len(audioSegments) > 0
    IN  /\ renderPc = "stage2"
        /\ single => outcome = "ok"
        /\ (~single /\ missing) => outcome # "ok"
        /\ IF rejects
           THEN /\ renderPc' = "rejected"
                /\ renderError' = "engine error"
                /\ progressLog' = Append(progressLog, 650)
                /\ progressOps' = Append(progressOps, Len(engineOps))
                /\ logs' = handleProgress(logs, 650, ConcatenatingStage(Len(clipNames)))
                /\ engineOps' = engineOps \o ops
                /\ engineFiles' = IF single THEN engineFiles ELSE engineFiles \cup {"concat.txt"}
           ELSE /\ renderPc' = IF hasAudio THEN "stage3" ELSE "stage4"
                /\ UNCHANGED renderError
                /\ progressLog' = Append(progressLog, 650) \o (IF hasAudio THEN <<750>> ELSE <<>>)
                /\ progressOps' = Append(progressOps, Len(engineOps))
                                   \o (IF hasAudio THEN <<Len(engineOps) + Len(ops) + Len(cleanup)>>
                                       ELSE <<>>)
                /\ logs' = LET l == handleProgress(logs, 650, ConcatenatingStage(Len(clipNames)))
                           IN  IF hasAudio
                               THEN handleProgress(l, 750, MixingStage(Len(audioSegments)))
                               ELSE l
                /\ engineOps' = engineOps \o ops \o cleanup
                /\ engineFiles' = (engineFiles \ (Range(clipNames)
                                                  \cup (IF single THEN {} ELSE {"concat.txt"})))
                                  \cup (IF produced THEN {"video_only.mp4"} ELSE {})
        /\ finalOutput' = "video_only.mp4"
        /\ audioIndex' = 0
        /\ audioInputArgs' = <<>>
        /\ filterParts' = <<>>
        /\ concatList' = IF single THEN <<>> ELSE ConcatListOf(clipNames)
        /\ UNCHANGED <<ffmpegLoaded, renderSegments, videoSegments, audioSegments, clipIndex,
                       clipNames, clipOutcomes, audioOutcomes>>
        /\ RenderFrame("concat")
        /\ UNCHANGED modalVars

\* mutant: the delay is cut to whole milliseconds
delayMs_Truncated(seg) == (seg.startFrame * 1000) \div (30 * SubDiv)

\* Math.round((seg.startFrame / 30) * 1000); startFrame is in 1/SubDiv frames
delayMs(seg) == (2 * seg.startFrame * 1000 + 30 * SubDiv) \div (2 * 30 * SubDiv)

\* mutant: the video input is not counted, the first audio is input 0
AdelayFilter_VideoNotCounted(validAudioCount, ms) ==
    [inputIdx |-> validAudioCount, adelay |-> <<ms, ms>>, label |-> validAudioCount]

\* `[${inputIdx}:a]adelay=${delayMs}|${delayMs},apad[a${validAudioCount}]`
AdelayFilter(validAudioCount, ms) ==
    [inputIdx |-> validAudioCount + 1, adelay |-> <<ms, ms>>, label |-> validAudioCount]

\* STEP 3, one iteration of the loop over audioSegments
loadAudio(outcome) ==
    LET i == audioIndex
        seg == audioSegments[i + 1]
        audioName == AudioFileName(i, seg)
        fetched == outcome # "fetchRejects"
        validAudioCount == Len(audioInputArgs)
    IN  /\ renderPc = "stage3"
        /\ audioIndex < Len(audioSegments)
        /\ engineOps' = engineOps \o <<FetchOp(seg.assetUrl)>>
                        \o (IF fetched THEN <<EngineOp("writeFile", audioName)>> ELSE <<>>)
        /\ engineFiles' = engineFiles \cup (IF outcome = "ok" THEN {audioName} ELSE {})
        /\ audioInputArgs' = IF outcome = "ok" THEN Append(audioInputArgs, audioName)
                             ELSE audioInputArgs
        /\ filterParts' = IF outcome = "ok"
                          THEN Append(filterParts, AdelayFilter(validAudioCount, delayMs(seg)))
                          ELSE filterParts
        /\ UNCHANGED concatList
        /\ audioOutcomes' = Append(audioOutcomes, outcome)
        /\ audioIndex' = audioIndex + 1
        /\ UNCHANGED <<ffmpegLoaded, renderPc, renderSegments, videoSegments, audioSegments,
                       clipIndex, clipNames, finalOutput, renderError, progressLog,
                       progressOps, logs,
                       clipOutcomes>>
        /\ RenderFrame("audio")
        /\ UNCHANGED modalVars

\* The arguments of the mix command: the inputs (-i video_only.mp4, then -i
\* for every audio written), the adelay filters, the labels that are mixed
\* and `amix=inputs=${validAudioCount}:normalize=0`
MixCommand(inputArgs, parts, validAudioCount) ==
    [inputs |-> <<"video_only.mp4">> \o inputArgs,
     filters |-> parts,
     mixLabels |-> [k \in 1..Len(parts) |-> parts[k].label],
     amix |-> [inputs |-> validAudioCount, normalize |-> 0]]

\* STEP 3 after the loop: the mix command, if any audio was loaded, and the
\* cleanup of audio_i.wav.  The mix succeeds only on a video file that exists.
mixAudio(outcome) ==
    LET validAudioCount == Len(audioInputArgs)
        mixes == validAudioCount > 0
        cleanup == [k \in 1..Len(audioSegments) |->
                       EngineOp("deleteFile", "audio_" \o ToString(k - 1) \o ".wav")]
    IN  /\ renderPc = "stage3"
        /\ audioIndex = Len(audioSegments)
        /\ ~mixes => outcome = "ok"
        /\ (mixes /\ "video_only.mp4" \notin engineFiles) => outcome # "ok"
        /\ finalOutput' = IF mixes /\ outcome # "execRejects" THEN "final_output.mp4"
                          ELSE finalOutput
        /\ engineOps' = engineOps
                        \o (IF mixes
                            THEN <<EngineOp("exec", "final_output.mp4")
                                   @@ ("args" :> MixCommand(audioInputArgs, filterParts,
                                                            validAudioCount))>>
                            ELSE <<>>)
                        \o cleanup
        /\ engineFiles' = (engineFiles
                           \cup (IF mixes /\ outcome = "ok" THEN {"final_output.mp4"} ELSE {}))
                          \ {cleanup[k].file : k \in 1..Len(cleanup)}
        /\ renderPc' = "stage4"
        /\ UNCHANGED <<ffmpegLoaded, renderSegments, videoSegments, audioSegments, clipIndex,
                       clipNames, audioIndex, audioInputArgs, filterParts, concatList, renderError,
                       progressLog, progressOps, logs,
                       clipOutcomes, audioOutcomes>>
        /\ RenderFrame("mix")
        /\ UNCHANGED modalVars

\* mutant: completion is reported before the read of the output has settled
packageProgress_CompleteFirst(missing) == <<920, 1000>>

\* the progress events of STEP 4: 0.92 before readFile(finalOutput), which
\* rejects when the file is missing, and 1.0 after it and the cleanup
packageProgress(missing) == IF missing THEN <<920>> ELSE <<920, 1000>>

\* STEP 4: read the output back and hand out the download URL
packageOutput ==
    LET missing == finalOutput \notin engineFiles
    IN  /\ renderPc = "stage4"
        /\ IF missing
           THEN /\ renderPc' = "rejected"
                /\ renderError' = "engine error"
                /\ progressLog' = progressLog \o packageProgress(missing)
                /\ progressOps' = Append(progressOps, Len(engineOps))
                /\ logs' = handleProgress(logs, 920, PackagingStage)
                /\ engineOps' = Append(engineOps, EngineOp("readFile", finalOutput))
                /\ UNCHANGED engineFiles
           ELSE /\ renderPc' = "resolved"
                /\ UNCHANGED renderError
                /\ progressLog' = progressLog \o packageProgress(missing)
                /\ progressOps' = progressOps \o <<Len(engineOps), Len(engineOps) + 3>>
                /\ logs' = handleProgress(handleProgress(logs, 920, PackagingStage),
                                          1000, CompleteStage)
                /\ engineOps' = engineOps \o <<EngineOp("readFile", finalOutput),
                                               EngineOp("deleteFile", "video_only.mp4"),
                                               EngineOp("deleteFile", "final_output.mp4")>>
                /\ engineFiles' = engineFiles \ {"video_only.mp4", "final_output.mp4"}
        /\ UNCHANGED <<ffmpegLoaded, renderSegments, videoSegments, audioSegments, clipIndex,
                       clipNames, audioIndex, audioInputArgs, filterParts, concatList, finalOutput,
                       clipOutcomes, audioOutcomes>>
        /\ RenderFrame("package")
        /\ UNCHANGED modalVars

\* the dialog is closed after the export has settled; the engine and its
\* files stay
closeRenderModal ==
    /\ renderPc \in {"resolved", "rejected"}
    /\ renderPc' = "closed"
    /\ renderSegments' = <<>>
    /\ videoSegments' = <<>>
    /\ audioSegments' = <<>>
    /\ clipIndex' = 0
    /\ clipNames' = <<>>
    /\ audioIndex' = 0
    /\ audioInputArgs' = <<>>
    /\ filterParts' = <<>>
    /\ concatList' = <<>>
    /\ finalOutput' = "video_only.mp4"
    /\ renderError' = "none"
    /\ progressLog' = <<>>
    /\ progressOps' = <<>>
    /\ logs' = <<>>
    /\ engineOps' = <<>>
    /\ clipOutcomes' = <<>>
    /\ audioOutcomes' = <<>>
    /\ renderStarted' = FALSE
    /\ renderCalls' = 0
    /\ UNCHANGED <<ffmpegLoaded, engineFiles>>
    /\ RenderFrame("close")

\* Export of a store that was edited before: one asset dropped, Main-Video
\* segments moved and segments deleted; then exports, one after the other
RenderDropTargets == {<<AssetImg, VIDEO_MAIN>>, <<AssetAud, AUDIO_TRACK>>}
\* an image lands on a whole second, a sound also between two seconds
RenderDropTimes(trackId) ==
    IF trackId = AUDIO_TRACK THEN {Sec(2), Sec(2) + Frames(2)} ELSE {Sec(2)}
RenderMoveTargets == {Frames(300)}
Editing == renderPc = "closed" /\ ~ffmpegLoaded

RenderDrop ==
    \E d \in RenderDropTargets : \E t \in RenderDropTimes(d[2]) :
        /\ Editing
        /\ Room(1)
        /\ handleDropAssetOnTimeline(d[1], d[2], t)
RenderMove ==
    \E i \in 1..Len(segments), x \in RenderMoveTargets :
        /\ Editing
        /\ segments[i].trackId = VIDEO_MAIN
        /\ handleSegmentMouseUp(segments[i].id, x)
RenderDelete ==
    \E i \in 1..Len(segments) :
        /\ Editing
        /\ segments[i].trackId \in {VIDEO_MAIN, AUDIO_TRACK}
        /\ handleDeleteSegment(segments[i].id)
Load == \E o \in LoadOutcomes : loadFFmpeg(o)
Normalize == \E o \in SegmentOutcomes : normalizeSegment(o)
Concatenate == \E o \in ExecOutcomes : concatenateClips(o)
LoadAudio == \E o \in AudioOutcomes : loadAudio(o)
Mix == \E o \in ExecOutcomes : mixAudio(o)

NextRender ==
    \/ RenderDrop
    \/ RenderMove
    \/ RenderDelete
    \/ openRenderModal
    \/ Load
    \/ renderPrepare
    \/ Normalize
    \/ checkClips
    \/ Concatenate
    \/ LoadAudio
    \/ Mix
    \/ packageOutput
    \/ closeRenderModal

SpecRender == Init /\ [][NextRender]_vars

\* The store changes while the dialog is open: a batch approved earlier
\* lands (handleDirectorApprove awaits its generations before setSegments),
\* an image is dropped, a Main-Video segment is deleted
ModalOpen == renderPc # "closed"
ModalApprove ==
    /\ ModalOpen
    /\ Room(2)
    /\ handleDirectorApprove(<<TRUE>>)
ModalDrop ==
    /\ ModalOpen
    /\ Room(1)
    /\ handleDropAssetOnTimeline(AssetImg, VIDEO_MAIN, Sec(2))
ModalDelete ==
    \E i \in 1..Len(segments) :
        /\ ModalOpen
        /\ segments[i].trackId = VIDEO_MAIN
        /\ handleDeleteSegment(segments[i].id)

\* the engine loads or not; every later operation of the engine succeeds
ModalNormalize == normalizeSegment("ok")
ModalConcatenate == concatenateClips("ok")
ModalLoadAudio == loadAudio("ok")
ModalMix == mixAudio("ok")

NextModal ==
    \/ ModalApprove
    \/ ModalDrop
    \/ ModalDelete
    \/ openRenderModal
    \/ Load
    \/ renderPrepare
    \/ ModalNormalize
    \/ checkClips
    \/ ModalConcatenate
    \/ ModalLoadAudio
    \/ ModalMix
    \/ packageOutput
    \/ closeRenderModal

SpecModal == Init /\ [][NextModal]_vars

\* Audio mix: sounds are dropped on the Audio track and Main-Video segments
\* deleted before the export; every load of a sound may fail, the engine
\* loads or not, every other operation of the engine succeeds
MixDropTimes == {Sec(2), Sec(2) + Frames(2)}
MixDrop ==
    \E t \in MixDropTimes :
        /\ Editing
        /\ Len(segments) + 1 <= MaxSegs /\ nextId <= MaxIds
        /\ handleDropAssetOnTimeline(AssetAud, AUDIO_TRACK, t)
MixDelete ==
    \E i \in 1..Len(segments) :
        /\ Editing
        /\ segments[i].trackId = VIDEO_MAIN
        /\ handleDeleteSegment(segments[i].id)

NextMix ==
    \/ MixDrop
    \/ MixDelete
    \/ openRenderModal
    \/ Load
    \/ renderPrepare
    \/ ModalNormalize
    \/ checkClips
    \/ ModalConcatenate
    \/ LoadAudio
    \/ ModalMix
    \/ packageOutput
    \/ closeRenderModal

SpecMix == Init /\ [][NextMix]_vars

----------------------------------------------------------------------------
(* The engine instance of ffmpegService: loadFFmpeg called by two callers  *)
(* whose calls may overlap.  A call runs to its first await, the pending   *)
(* toBlobURL; it resumes when the two toBlobURL promises have settled and  *)
(* calls load() on the instance that `ffmpeg.load` was evaluated on before *)
(* the awaits; it resumes again when load() has settled and returns the    *)
(* value the module variable has then.  The callers pass no onProgress.    *)

EngineFrame(c) ==
    /\ UNCHANGED <<appVars, playerVars, clockVars, pipelineVars, modalVars>>
    /\ lastRun' = NoRun
    /\ lastOp' = [name |-> "loadFFmpeg", id |-> c]

\* loadFFmpeg up to `await toBlobURL(...)`
loadFFmpegCall(c) ==
    /\ callerPc[c] = "idle"
    /\ callCount[c] < MaxCalls
    /\ callCount' = [callCount EXCEPT ![c] = @ + 1]
    /\ IF ffmpeg # 0 /\ ffmpeg \in instanceLoaded
       THEN /\ results' = results \cup {ffmpeg}
            /\ UNCHANGED <<ffmpeg, instances, callerPc, callerInstance>>
       ELSE /\ instances' = instances + 1
            /\ ffmpeg' = instances + 1
            /\ callerInstance' = [callerInstance EXCEPT ![c] = instances + 1]
            /\ callerPc' = [callerPc EXCEPT ![c] = "toBlobURL"]
            /\ UNCHANGED results
    /\ UNCHANGED <<instanceLoaded, loadCalls>>
    /\ EngineFrame(c)

\* the toBlobURL promises settle; on success load() is called
toBlobURLSettles(c, outcome) ==
    /\ callerPc[c] = "toBlobURL"
    /\ IF outcome = "ok"
       THEN /\ loadCalls' = Append(loadCalls, callerInstance[c])
            /\ callerPc' = [callerPc EXCEPT ![c] = "load"]
       ELSE /\ callerPc' = [callerPc EXCEPT ![c] = "idle"]
            /\ UNCHANGED loadCalls
    /\ UNCHANGED <<ffmpeg, instances, instanceLoaded, callerInstance, callCount, results>>
    /\ EngineFrame(c)

\* load() settles; on success loadFFmpeg returns the module variable
loadSettles(c, outcome) ==
    /\ callerPc[c] = "load"
    /\ callerPc' = [callerPc EXCEPT ![c] = "idle"]
    /\ IF outcome = "ok"
       THEN /\ instanceLoaded' = instanceLoaded \cup {callerInstance[c]}
            /\ results' = results \cup {ffmpeg}
       ELSE UNCHANGED <<instanceLoaded, results>>
    /\ UNCHANGED <<ffmpeg, instances, loadCalls, callerInstance, callCount>>
    /\ EngineFrame(c)

EngineCall == \E c \in Callers : loadFFmpegCall(c)
EngineBlobs == \E c \in Callers, o \in LoadOutcomes : toBlobURLSettles(c, o)
EngineLoad == \E c \in Callers, o \in LoadOutcomes : loadSettles(c, o)

NextEngine ==
    \/ EngineCall
    \/ EngineBlobs
    \/ EngineLoad

SpecEngine == Init /\ [][NextEngine]_vars

\* The whole program
Next ==
    \/ DropOnTimeline
    \/ MoveSegment
    \/ DropOnPlayer
    \/ Unlink
    \/ Delete
    \/ Approve
    \/ TogglePlay
    \/ Seek
    \/ SelectAsset
    \/ Tick
    \/ Media
    \/ openRenderModal
    \/ Load
    \/ renderPrepare
    \/ Normalize
    \/ checkClips
    \/ Concatenate
    \/ LoadAudio
    \/ Mix
    \/ packageOutput
    \/ closeRenderModal
    \/ EngineCall
    \/ EngineBlobs
    \/ EngineLoad
    \/ loopPaused
    \/ unmountApp

Spec == Init /\ [][Next]_vars

----------------------------------------------------------------------------
(* Properties of the segment store (SpecStore) *)

Idx == 1..Len(segments)
Updated(i) == lastOp'.name = "update" /\ lastOp'.id = segments[i].id
StartDelta(i) == segments'[i].startFrame - segments[i].startFrame
EndDelta(i) == segments'[i].endFrame - segments[i].endFrame

\* C1: after any mutation every segment of the store has
\* endFrame = startFrame + round(duration * 30).
C1_EndFrameIsStartPlusRoundedDuration ==
    lastOp.name # "mount" =>
        \A i \in Idx :
            segments[i].endFrame =
                segments[i].startFrame + MathRound(TimeToFrames(segments[i].duration))

\* C2: when A names B as its linked segment, one update of A's startFrame by
\* d frames changes B's startFrame and B's endFrame by exactly d.
C2_LinkedSegmentMovesByDelta ==
    [][\A i, j \in Idx :
          (Updated(i) /\ i # j /\ segments[i].linkedSegmentId = segments[j].id)
          => /\ StartDelta(j) = StartDelta(i)
             /\ EndDelta(j) = StartDelta(i)]_vars

\* C3 (as claimed): when A names B as its linked segment, an update of B's
\* startFrame leaves A's startFrame and endFrame unchanged.
C3_MovingTargetLeavesSourceUnchanged ==
    [][\A i, j \in Idx :
          (Updated(j) /\ i # j /\ segments[i].linkedSegmentId = segments[j].id)
          => /\ StartDelta(i) = 0
             /\ EndDelta(i) = 0]_vars

\* C3 (amended): when A names B as its linked segment and B does not name A,
\* an update of B's startFrame leaves A's startFrame and endFrame unchanged;
\* when B names A as well, the update of B's startFrame to x moves A to x.
C3_MovingTargetLeavesSourceUnlessMutual ==
    [][\A i, j \in Idx :
          (Updated(j) /\ i # j /\ segments[i].linkedSegmentId = segments[j].id)
          => IF segments[j].linkedSegmentId = segments[i].id
             THEN segments'[i].startFrame = segments'[j].startFrame
             ELSE StartDelta(i) = 0 /\ EndDelta(i) = 0]_vars

\* C3 witness: B was moved away from a segment A that names B while B does
\* not name A.
C3_Witness ==
    /\ lastOp.name = "update"
    /\ \E i, j \in Idx :
          /\ segments[j].id = lastOp.id
          /\ segments[i].linkedSegmentId = segments[j].id
          /\ segments[j].linkedSegmentId # segments[i].id
          /\ segments[j].startFrame # segments[i].startFrame

\* C4: an update of a segment's startFrame shifts every other segment whose
\* linkedSegmentId names it by the same frame delta.
C4_SegmentsNamingMovedSegmentFollow ==
    [][\A i, j \in Idx :
          (Updated(i) /\ i # j /\ segments[j].linkedSegmentId = segments[i].id)
          => /\ StartDelta(j) = StartDelta(i)
             /\ EndDelta(j) = EndDelta(i)]_vars

\* C5: no dangling links: after remove(id) no segment names id, and every
\* linkedSegmentId of the store names a segment that is present.
C5_NoDanglingLinks ==
    /\ lastOp.name = "delete" => \A i \in Idx : segments[i].linkedSegmentId # lastOp.id
    /\ \A i \in Idx :
          segments[i].linkedSegmentId # Undefined
          => segments[i].linkedSegmentId \in SegIds(segments)

\* C6: after unlink(id) the segment id has no link, no segment names id (so
\* its counterpart has no link back), and nothing else of any segment changed.
C6_UnlinkClearsBothSides ==
    [][lastOp'.name = "unlink" =>
          /\ Len(segments') = Len(segments)
          /\ \A k \in Idx :
                /\ segments'[k].id = lastOp'.id => segments'[k].linkedSegmentId = Undefined
                /\ segments'[k].linkedSegmentId # lastOp'.id
                /\ segments'[k] =
                      [segments[k] EXCEPT !.linkedSegmentId = segments'[k].linkedSegmentId]
                /\ (segments[k].id # lastOp'.id /\ segments[k].linkedSegmentId # lastOp'.id)
                      => segments'[k] = segments[k]]_vars

\* C6 witness: a dropped video segment was unlinked and both it and its
\* audio counterpart are in the store without a link.
C6_Witness ==
    /\ lastOp.name = "unlink"
    /\ \E i, j \in Idx :
          /\ segments[i].id = lastOp.id
          /\ segments[j].id = AudioId(lastOp.id)
          /\ segments[i].linkedSegmentId = Undefined
          /\ segments[j].linkedSegmentId = Undefined

\* C7: links are symmetric: when A names B and B is present, B names A.
C7_LinksAreSymmetric ==
    \A i, j \in Idx :
        segments[i].linkedSegmentId = segments[j].id
        => segments[j].linkedSegmentId = segments[i].id

----------------------------------------------------------------------------
(* Properties of the playback resolver (SpecPlayer) *)

playheadFrame == TimeToFrames(timelineTime)
ActiveSegs == {activeVideoSeg, activeMainImageSeg, activeOverlaySeg, activeAudioSeg}
Matches(i, track) == segments[i].trackId = track /\ InInterval(segments[i], playheadFrame)
FirstMatch(i, track) == Matches(i, track) /\ \A k \in 1..(i - 1) : ~Matches(k, track)

\* C8: a segment is resolved as active only at frames f with
\* startFrame <= f < endFrame: never at its own end frame, none of the initial
\* Main-Video segments [0,120) and [121,240) at frame 120, and of two adjacent
\* segments [a,b), [b,c) not both at frame b.
C8_BoundaryIsExclusive ==
    /\ playbackMode = "TIMELINE" =>
          \A a \in ActiveSegs \ {Null} :
              /\ \E i \in Idx : segments[i] = a
              /\ a.startFrame <= playheadFrame
              /\ playheadFrame < a.endFrame
    /\ \A i \in Idx :
          FindActive(segments, segments[i].trackId, segments[i].endFrame) # segments[i]
    /\ segments = InitialSegments => FindActive(segments, VIDEO_MAIN, Frames(120)) = Null
    /\ \A i, j \in Idx :
          segments[i].endFrame = segments[j].startFrame
          => ~(  InInterval(segments[i], segments[i].endFrame)
              /\ InInterval(segments[j], segments[i].endFrame))

\* C8 witness: the playhead stands on the end frame of an Audio segment and
\* the resolver has no active Audio segment.
C8_Witness ==
    /\ playbackMode = "TIMELINE"
    /\ lastOp.name = "seek"
    /\ activeAudioSeg = Null
    /\ \E i \in Idx :
          /\ segments[i].trackId = AUDIO_TRACK
          /\ segments[i].endFrame = playheadFrame

\* C9: on each track the resolver selects the segment that comes first in
\* store order among those containing the current frame, whatever their
\* startFrame, and an update keeps the store order.
C9_FirstMatchWins ==
    /\ [](playbackMode = "TIMELINE" =>
            \A i \in Idx :
                /\ FirstMatch(i, OVERLAY) => activeOverlaySeg = segments[i]
                /\ FirstMatch(i, AUDIO_TRACK) => activeAudioSeg = segments[i]
                /\ FirstMatch(i, VIDEO_MAIN) =>
                      /\ activeVideoSeg =
                            IF segments[i].assetType = VIDEO THEN segments[i] ELSE Null
                      /\ activeMainImageSeg =
                            IF segments[i].assetType = IMAGE THEN segments[i] ELSE Null)
    /\ [][lastOp'.name = "update" =>
            /\ Len(segments') = Len(segments)
            /\ \A k \in Idx : segments'[k].id = segments[k].id]_vars

\* C9 witness: two Main-Video segments contain the current frame, the one
\* first in the store starts later and is not a video, the other is a video,
\* and no video segment is resolved.
C9_Witness ==
    /\ playbackMode = "TIMELINE"
    /\ activeVideoSeg = Null
    /\ \E i, j \in Idx :
          /\ i < j
          /\ FirstMatch(i, VIDEO_MAIN)
          /\ Matches(j, VIDEO_MAIN)
          /\ segments[i].startFrame > segments[j].startFrame
          /\ segments[i].assetType # VIDEO
          /\ segments[j].assetType = VIDEO

\* C10: in TIMELINE mode, once the resolver has processed a time at which no
\* Main-Video segment is active, the video surface is paused and its source
\* is cleared, in that very resolver run.
C10_NoMainSegmentClearsVideoSurface ==
    (playbackMode = "TIMELINE" /\ FindActive(segments, VIDEO_MAIN, playheadFrame) = Null)
    => (videoPaused /\ videoSrc = NoUrl)

----------------------------------------------------------------------------
(* Properties of the surface synchronisation (SpecDrift, SpecPlayer) *)

HasCmd(cmds, op) == \E k \in 1..Len(cmds) : cmds[k].op = op

\* the time the element reports when the drift test is made, given the time
\* it had before the run: load() has reset it if the run changed the source
Reported(cmds, before) == IF HasCmd(cmds, "load") THEN 0 ELSE before

\* the run that led to the primed state kept the element of segment seg
\* within the tolerance: a larger difference was overwritten with the
\* expected local time, a smaller one was not written
SurfaceFollows(seg, cmds, before, after) ==
    LET expected == timelineTime' - FramesToTime(seg.startFrame)
        reported == Reported(cmds, before)
    IN  /\ MathAbs(reported - expected) > DriftTolerance
              => HasCmd(cmds, "currentTime") /\ after = expected
        /\ MathAbs(reported - expected) <= DriftTolerance
              => ~HasCmd(cmds, "currentTime") /\ after = reported
        /\ MathAbs(after - expected) <= DriftTolerance

\* C11: on every resolver run with an active video-kind Main-Video segment,
\* a surface time that differs from globalTime - startFrame/30 by more than
\* 0.3 s is set to exactly that value and one that differs by at most 0.3 s
\* is not written, so the difference is at most 0.3 s after the run; the
\* same holds for the audio surface and the active Audio segment.
C11_DriftCorrectedBeyondTolerance ==
    [][(lastRun'.ran /\ playbackMode' = "TIMELINE") =>
         /\ activeVideoSeg' # Null =>
               SurfaceFollows(activeVideoSeg', lastRun'.videoCmds, videoTime, videoTime')
         /\ activeAudioSeg' # Null =>
               SurfaceFollows(activeAudioSeg', lastRun'.audioCmds, audioTime, audioTime')]_vars

\* C11 witness: a resolver run left a video surface alone that is off by a
\* non-zero difference within the tolerance, and overwrote the audio surface
C11_Witness ==
    /\ lastRun.ran
    /\ playbackMode = "TIMELINE"
    /\ activeVideoSeg # Null
    /\ activeAudioSeg # Null
    /\ ~HasCmd(lastRun.videoCmds, "currentTime")
    /\ ~HasCmd(lastRun.videoCmds, "load")
    /\ videoTime # timelineTime - FramesToTime(activeVideoSeg.startFrame)
    /\ HasCmd(lastRun.audioCmds, "currentTime")
    /\ audioTime = timelineTime - FramesToTime(activeAudioSeg.startFrame)

ModeTriggers == {"select", "seek", "toggle"}

\* C12: selecting a library asset always leaves the mode ASSET, seeking or
\* toggling play always leaves it TIMELINE, repeating the same trigger does
\* not change the mode again, and clock ticks and segment-store mutations
\* never change the mode.
C12_ModeChangesOnlyOnUserTriggers ==
    [][/\ lastOp'.name = "select" => playbackMode' = "ASSET"
       /\ lastOp'.name \in {"seek", "toggle"} => playbackMode' = "TIMELINE"
       /\ (lastOp'.name \in ModeTriggers /\ lastOp'.name = lastOp.name)
             => playbackMode' = playbackMode
       /\ lastOp'.name \notin ModeTriggers => playbackMode' = playbackMode]_vars

\* C12 witness: a seek has brought the program back from the preview of a
\* selected asset to the timeline
C12_Witness ==
    /\ lastOp.name = "seek"
    /\ playbackMode = "TIMELINE"
    /\ activeAsset # Null

\* C13: the active Overlay segment is drawn at exactly its stored normalized
\* coordinates (overlayX, overlayY), for every stored value in 0..1,
\* including 0.
C13_OverlayDrawnAtStoredCoordinates ==
    (/\ playbackMode = "TIMELINE"
     /\ activeOverlaySeg # Null
     /\ activeOverlaySeg.assetUrl # NoUrl
     /\ Len(activeOverlaySeg.metadata) = 2)
    => OverlayStyle(activeOverlaySeg) =
          [left |-> (activeOverlaySeg.metadata[1] * 100) \div CoordUnit,
           top |-> (activeOverlaySeg.metadata[2] * 100) \div CoordUnit]

\* Two resolver runs that agree on everything but the video side: the
\* Main-Video segments of the store are replaced and the video element and
\* the captured activeVideoSeg are arbitrary
AltMainSegments ==
    { <<>>,
      <<Seg("m1", "mv", <<"m">>, VIDEO, VIDEO_MAIN, Frames(0), Frames(600), Sec(20), Undefined, <<>>)>>,
      <<Seg("m2", "mi", <<"t">>, IMAGE, VIDEO_MAIN, Frames(0), Frames(600), Sec(20), Undefined, <<>>)>> }
AltVideoSurfaces == {Surface(NoUrl, TRUE, 0), Surface(<<"t">>, FALSE, Sec(1))}
OffMain(segs) == SelectSeq(segs, LAMBDA s : s.trackId # VIDEO_MAIN)
AudioCmdsOf(segs, closure, video) ==
    TimelineEffect(segs, timelineTime, isTimelinePlaying, closure, video,
                   Surface(audioSrc, audioPaused, audioTime)).audioCmds

\* C14: for two resolver runs that agree on logical time, transport state,
\* Audio-track segments and audio surface state but differ in Main-Video
\* segments and video surface state, the commands issued to the audio
\* surface (source, time correction, play/pause) are identical.
C14_AudioCommandsIgnoreVideoSide ==
    \A main \in AltMainSegments, video \in AltVideoSurfaces, closure \in {Null, activeVideoSeg} :
        /\ AudioCmdsOf(main \o OffMain(segments), closure, video)
              = AudioCmdsOf(segments, activeVideoSeg, Surface(videoSrc, videoPaused, videoTime))
        /\ AudioCmdsOf(OffMain(segments) \o main, closure, video)
              = AudioCmdsOf(segments, activeVideoSeg, Surface(videoSrc, videoPaused, videoTime))

\* C14 witness: the audio surface is off by more than the tolerance under an
\* active Audio segment while playing, so the run issues a time correction
\* and play, and a Main-Video segment is active as well
C14_Witness ==
    /\ isTimelinePlaying
    /\ playbackMode = "TIMELINE"
    /\ FindActive(segments, VIDEO_MAIN, TimeToFrames(timelineTime)) # Null
    /\ HasCmd(AudioCmdsOf(segments, activeVideoSeg, Surface(videoSrc, videoPaused, videoTime)),
              "currentTime")
    /\ HasCmd(AudioCmdsOf(segments, activeVideoSeg, Surface(videoSrc, videoPaused, videoTime)),
              "play")

\* the commands mirror the transport on a surface with an active segment
Mirrors(cmds) ==
    /\ HasCmd(cmds, "play") <=> isTimelinePlaying
    /\ HasCmd(cmds, "pause") <=> ~isTimelinePlaying
\* the surface without an active segment is paused
Parked(cmds, paused) == HasCmd(cmds, "pause") /\ ~HasCmd(cmds, "play") /\ paused
Swallowed(cmds) == \A k \in 1..Len(cmds) : cmds[k].op = "play" => cmds[k].catch

\* C34: after every resolver run in TIMELINE mode a surface (video or audio)
\* with an active segment is commanded to play if and only if the transport
\* is playing (and to pause otherwise), and a surface with no active segment
\* is paused; the promise of every play() has its rejection swallowed.
C34_SurfacesMirrorTransport ==
    (lastRun.ran /\ playbackMode = "TIMELINE") =>
        /\ IF activeVideoSeg # Null
           THEN Mirrors(lastRun.videoCmds)
           ELSE Parked(lastRun.videoCmds, videoPaused)
        /\ IF activeAudioSeg # Null
           THEN Mirrors(lastRun.audioCmds)
           ELSE Parked(lastRun.audioCmds, audioPaused)
        /\ Swallowed(lastRun.videoCmds) /\ Swallowed(lastRun.audioCmds)
\* a run while playing with a video segment active and no Audio segment
\* under the playhead: the video surface plays, the audio surface is paused
C34_Witness ==
    /\ lastRun.ran
    /\ playbackMode = "TIMELINE"
    /\ isTimelinePlaying
    /\ activeVideoSeg # Null
    /\ activeAudioSeg = Null
    /\ HasCmd(lastRun.videoCmds, "play")
    /\ ~videoPaused /\ audioPaused

----------------------------------------------------------------------------
(* Properties of the export (SpecRender) *)

\* renderTimeline has passed the await of loadFFmpeg
Started == renderPc \notin {"closed", "loading", "loaded"} /\ renderError # "load failed"
AfterStage1 == renderPc \in {"stage2", "stage3", "stage4", "resolved", "rejected"}
                  /\ Len(videoSegments) > 0 /\ clipIndex = Len(videoSegments)
OpsOn(files) == {k \in 1..Len(engineOps) :
                    engineOps[k].op # "fetch" /\ engineOps[k].file \in files}
Stage2To4Files == {"concat.txt", "video_only.mp4", "final_output.mp4"}

\* the Stage-1 segment a clip name belongs to
SegmentOfClip(name) ==
    videoSegments[CHOOSE k \in 1..Len(videoSegments) : ClipName(k - 1) = name]

RECURSIVE OkClips(_)
\* the clips of the first n Stage-1 segments that were encoded successfully
OkClips(n) ==
    IF n = 0 THEN <<>>
    ELSE OkClips(n - 1) \o (IF clipOutcomes[n] = "ok" THEN <<ClipName(n - 1)>> ELSE <<>>)

\* C15: if the snapshot contains no Main-Video segment, renderTimeline
\* rejects with the no-video-segments error before any work is attempted: no
\* engine operation is started and no progress event is emitted before the
\* rejection.
C15_NoVideoRejectsBeforeAnyWork ==
    (renderPc = "rejected" /\ renderError = NoVideoSegmentsError)
    => (engineOps = <<>> /\ progressLog = <<>>)

\* C16: for every store order of the snapshot, the Main-Video segments are
\* normalized in ascending startFrame order and the clips handed to
\* concatenation are in ascending startFrame order of their segments.
C16_ClipsInAscendingStartFrameOrder ==
    Started =>
        /\ \A j, k \in 1..Len(videoSegments) :
              j < k => videoSegments[j].startFrame <= videoSegments[k].startFrame
        /\ \A g \in Range(FilterTrack(renderSegments, VIDEO_MAIN)) :
              Cardinality({k \in 1..Len(videoSegments) : videoSegments[k] = g}) = 1
        /\ Len(videoSegments) = Len(FilterTrack(renderSegments, VIDEO_MAIN))
        /\ \A j, k \in 1..Len(clipNames) :
              j < k => /\ SegmentOfClip(clipNames[j]).startFrame
                            <= SegmentOfClip(clipNames[k]).startFrame
                       /\ clipNames[j] # clipNames[k]

\* C16 witness: Stage 2 is reached with two clips whose segments are stored
\* in the opposite order
C16_Witness ==
    /\ renderPc = "stage2"
    /\ Len(clipNames) >= 2
    /\ FilterTrack(renderSegments, VIDEO_MAIN) # videoSegments

\* C17: a Stage-1 failure of some but not all Main-Video segments (fetch,
\* write or encode) does not make renderTimeline reject: every segment is
\* attempted and the clips passed to Stage 2 are exactly the segments that
\* encoded successfully, in ascending startFrame order.
C17_PartialFailureKeepsSuccessfulClips ==
    (/\ AfterStage1
     /\ \E k \in 1..Len(clipOutcomes) : clipOutcomes[k] = "ok"
     /\ \E k \in 1..Len(clipOutcomes) : clipOutcomes[k] # "ok")
    => /\ Len(clipOutcomes) = Len(videoSegments)
       /\ clipNames = OkClips(Len(clipOutcomes))
       /\ renderError # AllClipsFailedError

\* C18: if every Main-Video segment fails in Stage 1, renderTimeline rejects
\* with the all-clips-failed error, which differs from the no-video-segments
\* error, after attempting every segment once, and never starts
\* concatenation, audio mixing or packaging.
C18_AllFailedRejectsBeforeStage2 ==
    (/\ Len(videoSegments) > 0
     /\ clipIndex = Len(videoSegments)
     /\ renderPc # "stage1"
     /\ \A k \in 1..Len(clipOutcomes) : clipOutcomes[k] # "ok")
    => /\ renderPc = "rejected"
       /\ renderError = AllClipsFailedError
       /\ AllClipsFailedError # NoVideoSegmentsError
       /\ Len(clipOutcomes) = Len(videoSegments)
       /\ OpsOn(Stage2To4Files) = {}
       /\ \A k \in 1..Len(engineOps) : engineOps[k].op # "readFile"
       /\ \A k \in 1..Len(progressLog) : progressLog[k] < 650

\* C19: when Audio-track segments are present and Stage 2 produced the
\* video-only file, a Stage-3 failure (every audio fetch failed, or the mix
\* command failed) does not make the export reject: renderTimeline resolves
\* and returns the video-only file.
C19_Stage3FailureFallsBackToVideoOnly ==
    [][(/\ renderPc = "stage4"
        /\ renderPc' # "stage4"
        /\ Len(audioSegments) > 0
        /\ "video_only.mp4" \in engineFiles
        /\ \/ audioInputArgs = <<>>
           \/ "final_output.mp4" \notin engineFiles)
       => /\ renderPc' = "resolved"
          /\ finalOutput' = "video_only.mp4"]_vars

NoAudioTrackSegment == \A k \in 1..Len(renderSegments) : renderSegments[k].trackId # AUDIO_TRACK

\* C20: if the snapshot has no Audio-track segment, the pipeline does no
\* Stage-3 work (no audio fetch, no mix command), its one output file is the
\* video-only file and, when Stages 1-2 succeeded, it resolves with 1.0 as
\* its last progress event.
C20_NoAudioNoStage3 ==
    /\ []((Started /\ NoAudioTrackSegment) =>
            /\ renderPc # "stage3"
            /\ audioSegments = <<>>
            /\ finalOutput = "video_only.mp4"
            /\ OpsOn({"final_output.mp4"}) \subseteq
                  {k \in 1..Len(engineOps) : engineOps[k].op = "deleteFile"}
            /\ \A k \in 1..Len(engineOps) :
                  engineOps[k].op = "fetch"
                  => \E v \in 1..Len(videoSegments) : videoSegments[v].assetUrl = engineOps[k].url
            /\ Cardinality({k \in 1..Len(engineOps) : engineOps[k].op = "fetch"})
                  = Len(clipOutcomes)
            /\ \A k \in 1..Len(progressLog) : progressLog[k] # 750
            /\ renderPc = "resolved" => progressLog[Len(progressLog)] = 1000)
    /\ [][(/\ renderPc = "stage4"
           /\ renderPc' # "stage4"
           /\ NoAudioTrackSegment
           /\ \A k \in 1..Len(clipOutcomes) : clipOutcomes[k] = "ok"
           /\ "video_only.mp4" \in engineFiles)
          => /\ renderPc' = "resolved"
             /\ progressLog'[Len(progressLog')] = 1000]_vars

\* C20 witness: an export of two Main-Video segments and no Audio segment
\* has resolved
C20_Witness ==
    /\ renderPc = "resolved"
    /\ NoAudioTrackSegment
    /\ Len(videoSegments) >= 2
    /\ Len(clipNames) = Len(videoSegments)

\* the Stage-3 segment an audio file name belongs to
SegmentOfAudio(name) ==
    audioSegments[CHOOSE k \in 1..Len(audioSegments) :
                      AudioFileName(k - 1, audioSegments[k]) = name]

\* ms is the integer nearest to startFrame * 1000 / 30 (a half rounds up)
NearestMs(startFrame, ms) ==
    /\ 2 * ms * 30 * SubDiv <= 2 * startFrame * 1000 + 30 * SubDiv
    /\ 2 * startFrame * 1000 + 30 * SubDiv < 2 * (ms + 1) * 30 * SubDiv

\* C21: for every successfully loaded Audio segment, the delay written into
\* its adelay filter, for both channels, is its startFrame converted to
\* milliseconds, round(startFrame * 1000 / 30); a startFrame of 60 yields
\* exactly 2000.
C21_AdelayIsStartFrameInMilliseconds ==
    (Started /\ renderPc \in {"stage3", "stage4", "resolved", "rejected"}) =>
        /\ Len(filterParts) = Len(audioInputArgs)
        /\ \A k \in 1..Len(filterParts) :
              LET seg == SegmentOfAudio(audioInputArgs[k])
              IN  /\ filterParts[k].adelay[1] = filterParts[k].adelay[2]
                  /\ NearestMs(seg.startFrame, filterParts[k].adelay[1])
                  /\ seg.startFrame = Frames(60) => filterParts[k].adelay = <<2000, 2000>>
                  /\ filterParts[k].inputIdx = k

\* C21 witness: the mix was built for an Audio segment that starts at frame
\* 60 and its filter holds 2000 ms
C21_Witness ==
    /\ renderPc = "stage4"
    /\ \E k \in 1..Len(filterParts) :
          /\ SegmentOfAudio(audioInputArgs[k]).startFrame = Frames(60)
          /\ filterParts[k].adelay = <<2000, 2000>>

\* C22: in every run of renderTimeline, for every number of video and audio
\* segments and every pattern of per-segment failures, the sequence of
\* progress values passed to the callback is increasing and every value lies
\* in [0,1].
C22_ProgressIncreasesWithinUnitInterval ==
    /\ \A k \in 1..Len(progressLog) : progressLog[k] >= 0 /\ progressLog[k] <= 1000
    /\ \A j, k \in 1..Len(progressLog) : j < k => progressLog[j] < progressLog[k]

\* C22 witness: a run that loaded the engine, had a Stage-1 failure among
\* several segments and reported every stage
C22_Witness ==
    /\ renderPc = "resolved"
    /\ Len(progressLog) >= 6
    /\ progressLog[1] = 20
    /\ \E k \in 1..Len(clipOutcomes) : clipOutcomes[k] # "ok"

\* C23: progress 1.0 is emitted if and only if the export fully succeeds: a
\* run that rejects never emits 1.0, and a run that resolves emits 1.0 as its
\* last progress event, after the final file has been read back.
C23_CompleteOnlyOnSuccess ==
    LET n == Len(progressLog)
        complete == {k \in 1..n : progressLog[k] = 1000}
    IN  /\ renderPc # "resolved" => complete = {}
        /\ renderPc = "resolved" =>
              /\ complete = {n}
              /\ \E k \in 1..Len(engineOps) :
                    /\ engineOps[k] = EngineOp("readFile", finalOutput)
                    /\ k <= progressOps[n]
                    /\ \A j \in 1..(n - 1) : progressOps[j] < k

\* C23 witness: an export with audio resolved after reading the mixed file
C23_Witness ==
    /\ renderPc = "resolved"
    /\ finalOutput = "final_output.mp4"
    /\ progressLog[Len(progressLog)] = 1000

\* the texts the pipeline has for a unit that failed; it passes them to
\* console.error / console.warn
FailureMessages == {"Failed to process clip", "Failed to load audio",
                    "Audio mixing failed, exporting video only"}
MentionsFailure(line) == line.kind \in FailureMessages

\* a Main-Video or Audio unit failed in this run
UnitFailed ==
    \/ \E k \in 1..Len(clipOutcomes) : clipOutcomes[k] # "ok"
    \/ Len(audioInputArgs) < Len(audioSegments)
    \/ (Len(audioInputArgs) > 0 /\ finalOutput = "video_only.mp4")

\* C24: whenever a Main-Video or Audio unit fails non-fatally and the export
\* still completes, the log trail of the export (the lines delivered through
\* the progress channel and shown by the export dialog) is non-empty and
\* contains a line that mentions the failure.
C24_FailuresReachLogTrail ==
    (renderPc = "resolved" /\ UnitFailed)
    => /\ logs # <<>>
       /\ \E k \in 1..Len(logs) : MentionsFailure(logs[k])

\* the files a resolved run wrote into the engine: the inputs and clips of
\* Stage 1, the concat list, the video-only file, the audio files and the mix
WrittenFiles ==
    {InputName(k - 1, videoSegments[k]) :
        k \in {j \in 1..Len(clipOutcomes) :
                  clipOutcomes[j] \notin {"fetchRejects", "writeRejects"}}}
    \cup {ClipName(k - 1) : k \in {j \in 1..Len(clipOutcomes) : clipOutcomes[j] = "ok"}}
    \cup (IF Len(clipNames) > 1 THEN {"concat.txt"} ELSE {})
    \cup {"video_only.mp4"}
    \cup Range(audioInputArgs)
    \cup (IF finalOutput = "final_output.mp4" THEN {"final_output.mp4"} ELSE {})

\* C25: after renderTimeline resolves, none of the files that run wrote into
\* the engine's virtual filesystem (input_i.*, clip_i.mp4, concat.txt,
\* audio_i.*, video_only.mp4, final_output.mp4) still exists there, for every
\* mix of asset media types, so the number of files in the engine does not
\* grow across repeated exports.
C25_NoFilesLeftAfterExport ==
    renderPc = "resolved" => WrittenFiles \cap engineFiles = {}

\* the engine operations of the run, in the order they were started
EngineOpIndexes == {k \in 1..Len(engineOps) : engineOps[k].op # "fetch"}

\* the number of engine operations in flight when operation k has started:
\* itself and the earlier ones the run did not wait for
InFlightAt(k) ==
    1 + Cardinality({j \in EngineOpIndexes : j < k /\ ~engineOps[j].awaited})

AfterStage2 == AfterStage1 /\ renderPc \in {"stage3", "stage4", "resolved"}

\* C28: whenever exactly one clip was normalized successfully (one segment
\* attempted, or several attempted and the others failed), no concat list
\* file is written and no concat command is run; that clip's bytes become
\* the video-only file.
C28_SingleClipSkipsConcatenation ==
    (AfterStage2 /\ Len(OkClips(Len(clipOutcomes))) = 1) =>
        LET clip == OkClips(Len(clipOutcomes))[1]
        IN  /\ \A k \in EngineOpIndexes :
                  /\ engineOps[k] # EngineOp("writeFile", "concat.txt")
                  /\ engineOps[k] # EngineOp("exec", "video_only.mp4")
            /\ \E j, k \in EngineOpIndexes :
                  /\ k = j + 1
                  /\ engineOps[j] = EngineOp("readFile", clip)
                  /\ engineOps[k] = EngineOp("writeFile", "video_only.mp4")

RECURSIVE SplitLines(_)
\* the lines of a text, split at its line breaks
SplitLines(text) ==
    LET breaks == {k \in 1..Len(text) : text[k] = "\n"}
    IN  IF breaks = {} THEN <<text>>
        ELSE <<SubSeq(text, 1, SetMin(breaks) - 1)>>
             \o SplitLines(SubSeq(text, SetMin(breaks) + 1, Len(text)))

IsFileLine(line) == Len(line) = 3 /\ line[1] = "file '" /\ line[3] = "'"

\* C29: the concat list written in Stage 2 has exactly one line
\* file '<name>' per successfully normalized clip, and reading the clip names
\* back from its lines in order yields the clips in the ascending-startFrame
\* order of their segments.
C29_ConcatListRoundTrip ==
    (AfterStage1 /\ concatList # <<>>) =>
        LET lines == SplitLines(concatList)
            ok == OkClips(Len(clipOutcomes))
        IN  /\ \A k \in 1..Len(lines) : IsFileLine(lines[k])
            /\ Len(lines) = Len(ok)
            /\ \A k \in 1..Len(ok) : lines[k][2] = ok[k]
            /\ \A j, k \in 1..Len(ok) :
                  j < k => SegmentOfClip(ok[j]).startFrame <= SegmentOfClip(ok[k]).startFrame

\* C33: dropping a video asset on any track adds exactly two segments, a
\* Main-Video segment and an Audio segment, with equal startFrame, endFrame
\* and duration and each naming the other as linkedSegmentId; dropping an
\* image or audio asset adds exactly one segment, on the drop track, with no
\* link.  The segments that were in the store are unchanged.
C33_DropAddsLinkedPairOrOne ==
    [][lastOp'.name = "drop" =>
        LET n == Len(segments)
            new == SubSeq(segments', n + 1, Len(segments'))
        IN  /\ Len(segments') >= n
            /\ SubSeq(segments', 1, n) = segments
            /\ IF lastOp'.assetType = VIDEO
               THEN /\ Len(new) = 2
                    /\ new[1].trackId = VIDEO_MAIN
                    /\ new[2].trackId = AUDIO_TRACK
                    /\ new[1].startFrame = new[2].startFrame
                    /\ new[1].endFrame = new[2].endFrame
                    /\ new[1].duration = new[2].duration
                    /\ new[1].id # new[2].id
                    /\ new[1].linkedSegmentId = new[2].id
                    /\ new[2].linkedSegmentId = new[1].id
               ELSE /\ Len(new) = 1
                    /\ new[1].trackId = lastOp'.trackId
                    /\ new[1].linkedSegmentId = Undefined]_vars
\* a video was dropped on the Audio track of a store that held a segment
C33_Witness ==
    /\ lastOp.name = "drop"
    /\ lastOp.assetType = VIDEO
    /\ lastOp.trackId = AUDIO_TRACK
    /\ Len(segments) = 3
    /\ segments[2].trackId = VIDEO_MAIN
    /\ segments[3].linkedSegmentId = segments[2].id

----------------------------------------------------------------------------
(* Properties of the audio mix (SpecMix) *)

\* the indexes of the Audio segments that were loaded, in ascending order
RECURSIVE LoadedAudio(_)
LoadedAudio(n) ==
    IF n = 0 THEN <<>>
    ELSE LoadedAudio(n - 1) \o (IF audioOutcomes[n] = "ok" THEN <<n>> ELSE <<>>)
MixOps == {k \in 1..Len(engineOps) :
              engineOps[k].op = "exec" /\ engineOps[k].file = "final_output.mp4"}
Mixed == renderPc \in {"stage4", "resolved"} \/ (renderPc = "rejected" /\ MixOps # {})

\* C35: if k of the n Audio segments were loaded (any subset, in any
\* positions), the mix command has the video file as input 0 followed by the
\* files of exactly those k segments, the j-th loaded sound is referenced in
\* the filter graph as input j (1..k) with the delay of its own segment, and
\* the mix filter is amix=inputs=k:normalize=0; without a loaded sound there
\* is no mix command.
C35_MixInputsAreTheLoadedAudio ==
    Mixed =>
        LET loaded == LoadedAudio(Len(audioOutcomes))
            k == Len(loaded)
        IN  /\ Len(audioOutcomes) = Len(audioSegments)
            /\ k = 0 <=> MixOps = {}
            /\ Cardinality(MixOps) <= 1
            /\ \A m \in MixOps :
                  LET cmd == engineOps[m].args
                  IN  /\ Len(cmd.inputs) = k + 1
                      /\ cmd.inputs[1] = "video_only.mp4"
                      /\ Len(cmd.filters) = k
                      /\ \A j \in 1..k :
                            LET seg == audioSegments[loaded[j]]
                            IN  /\ cmd.inputs[j + 1] = AudioFileName(loaded[j] - 1, seg)
                                /\ cmd.filters[j].inputIdx = j
                                /\ NearestMs(seg.startFrame, cmd.filters[j].adelay[1])
                                /\ cmd.filters[j].adelay[2] = cmd.filters[j].adelay[1]
                                /\ cmd.mixLabels[j] = cmd.filters[j].label
                      /\ \A i, j \in 1..k : i # j => cmd.filters[i].label # cmd.filters[j].label
                      /\ cmd.amix = [inputs |-> k, normalize |-> 0]
\* the first of two sounds failed to load and the second, which starts at
\* another frame, was mixed as input 1
C35_Witness ==
    /\ renderPc = "resolved"
    /\ Len(audioSegments) = 2
    /\ audioOutcomes[1] # "ok"
    /\ audioOutcomes[2] = "ok"
    /\ audioSegments[1].startFrame # audioSegments[2].startFrame
    /\ MixOps # {}

----------------------------------------------------------------------------
(* Properties of the export dialog (SpecModal) *)

PipelineOps ==
    {"export", "load", "prepare", "normalize", "check", "concat", "audio", "mix",
     "package", "close"}

\* C31: for one open export dialog renderTimeline is started exactly once, on
\* the segments present when the dialog opened; a later change of the segment
\* store while the dialog is open starts no second export and leaves the
\* inputs of the running one as they were (the video and audio segments it
\* works on are those of the store at the opening), and no step of the
\* pipeline changes the segment store.
C31_ExportStartedOnceOnSnapshot ==
    /\ [](ModalOpen => (renderStarted /\ renderCalls = 1))
    /\ [][lastOp'.name = "export" => renderSegments' = segments]_vars
    /\ [][(ModalOpen /\ ModalOpen') => renderSegments' = renderSegments]_vars
    /\ [][lastOp'.name = "prepare" =>
            /\ videoSegments' = SortByStartFrame(FilterTrack(renderSegments, VIDEO_MAIN))
            /\ audioSegments' = SortByStartFrame(FilterTrack(renderSegments, AUDIO_TRACK))]_vars
    /\ [][(ModalOpen /\ ModalOpen' /\ lastOp'.name # "prepare") =>
            UNCHANGED <<videoSegments, audioSegments>>]_vars
    /\ [][lastOp'.name \in PipelineOps => segments' = segments]_vars
\* an export resolved after the store had changed under the open dialog
C31_Witness ==
    /\ renderPc = "resolved"
    /\ renderCalls = 1
    /\ segments # renderSegments
    /\ Len(clipNames) > 0

----------------------------------------------------------------------------
(* Properties of the video source (SpecSource) *)

LoadsSource(cmds) == \E k \in 1..Len(cmds) : cmds[k].op \in {"src", "load"}

\* C32: after every resolver run in TIMELINE mode with an active video-kind
\* Main-Video segment the source of the video surface equals the location of
\* that segment, whatever the previous and the new location are (one may be a
\* substring of the other); and a tick on which the same segment stays active
\* does not load the source again.
C32_VideoSourceIsActiveSegmentLocation ==
    /\ []((/\ lastRun.ran
           /\ playbackMode = "TIMELINE"
           /\ activeVideoSeg # Null
           /\ activeVideoSeg.assetUrl # NoUrl) => videoSrc = activeVideoSeg.assetUrl)
    /\ [][(/\ lastOp'.name = "tick"
           /\ activeVideoSeg # Null
           /\ activeVideoSeg' = activeVideoSeg) => ~LoadsSource(lastRun'.videoCmds)]_vars

----------------------------------------------------------------------------
(* Properties of the transport (SpecTransport) *)

AtEnd == ~isTimelinePlaying /\ timelineTime = contentDuration(segments)

\* C36: a tick that would carry the logical time to or past contentDuration
\* sets it to exactly contentDuration and stops the transport, and a tick
\* that would not adds the elapsed time and leaves the transport playing; if
\* the transport is playing and ticks keep arriving with positive elapsed
\* time, then a tick runs or another operation intervenes, and after a tick
\* the transport eventually stops with timelineTime = contentDuration unless
\* an operation other than a tick intervenes; a toggle-play in that end state
\* restarts playback from time 0.
C36_PlaybackStopsAtEndOfContent ==
    /\ [][(lastOp'.name = "tick" /\ mounted) =>
            \E d \in TransportTickDeltas :
                IF timelineTime + d >= contentDuration(segments)
                THEN timelineTime' = contentDuration(segments) /\ ~isTimelinePlaying'
                ELSE timelineTime' = timelineTime + d /\ isTimelinePlaying']_vars
    /\ (isTimelinePlaying /\ lastOp.name # "tick")
          ~> (lastOp.name = "tick" \/ ~isTimelinePlaying \/ ~mounted)
    /\ (isTimelinePlaying /\ lastOp.name = "tick") ~> (AtEnd \/ lastOp.name # "tick")
    /\ [][(lastOp'.name = "toggle" /\ AtEnd) =>
            (timelineTime' = 0 /\ isTimelinePlaying')]_vars
\* a tick has stopped the transport at exactly the end of the 8 s timeline
C36_Witness ==
    /\ lastOp.name = "tick"
    /\ AtEnd
    /\ timelineTime = Sec(8)
    /\ mounted

\* C37: in every reachable state 0 <= timelineTime <= contentDuration (the
\* end of the last segment, or 10 s for an empty store), after any
\* interleaving of seeks, play/pause toggles, clock ticks and segment
\* additions, moves and deletions.
C37_TimeWithinContent ==
    /\ 0 <= timelineTime
    /\ timelineTime <= contentDuration(segments)

\* C38: the timeline transport never runs in asset-preview mode:
\* isTimelinePlaying implies playbackMode = TIMELINE in every reachable
\* state, and no step taken in ASSET mode that stays in it changes the
\* logical time.
C38_TransportOnlyInTimelineMode ==
    /\ [](isTimelinePlaying => playbackMode = "TIMELINE")
    /\ [][(playbackMode = "ASSET" /\ playbackMode' = "ASSET") =>
            timelineTime' = timelineTime]_vars
\* an asset has been selected with the playhead inside the timeline: the mode
\* is ASSET and the transport is stopped
C38_Witness ==
    /\ lastOp.name = "select"
    /\ playbackMode = "ASSET"
    /\ ~isTimelinePlaying
    /\ timelineTime > 0
    /\ timelineTime < contentDuration(segments)

\* C39: whenever the transport is not playing, the audio surface is paused
\* once the resolver has reacted to the state (every state of the model is
\* taken after the effects of its render have run), in TIMELINE mode and in
\* ASSET mode, also right after an asset is selected while a timeline Audio
\* segment plays.
C39_AudioPausedWhenStopped ==
    (~isTimelinePlaying) => audioPaused

----------------------------------------------------------------------------
(* Properties of the master clock (SpecClock) *)

\* C30: the transport clock loop is cancelable and never duplicated: at every
\* moment at most one tick callback is scheduled; on a mounted App it is the
\* one whose handle reqRef.current holds and it is the loop of the current
\* isTimelinePlaying and contentDuration, so every re-arming of the loop
\* (play/pause or a change of the content duration) has cancelled the
\* callback of the loop before it; after teardown no callback is scheduled,
\* no tick fires and the logical time no longer changes.
C30_ClockLoopCancelableNeverDuplicated ==
    /\ [](/\ Cardinality(scheduled) <= 1
          /\ mounted =>
                scheduled = {LoopCallback(reqRef, isTimelinePlaying,
                                          contentDuration(segments))}
          /\ ~mounted => scheduled = {})
    /\ [][~mounted => (/\ timelineTime' = timelineTime
                       /\ lastOp'.name \notin {"tick", "frame"})]_vars
\* torn down while playing, after the loop was re-armed by play and by a
\* change of the content duration and the clock had advanced
C30_Witness ==
    /\ ~mounted
    /\ isTimelinePlaying
    /\ timelineTime > 0
    /\ contentDuration(segments) # contentDuration(InitialSegments)

----------------------------------------------------------------------------
(* Properties of the engine instance (SpecEngine) *)

Pending == {c \in Callers : callerPc[c] # "idle"}

\* C26: the transcoding engine is initialized once: across any interleaving
\* of loadFFmpeg calls, including a second call that starts while the first
\* call's load() is still pending, at most one engine instance is created
\* and load() runs at most once when it succeeds (a new instance is created
\* only when no load is pending and none has succeeded), and every caller
\* receives that same instance.
C26_EngineInitializedOnce ==
    /\ [](/\ Cardinality(instanceLoaded) <= 1
          /\ Cardinality(results) <= 1
          /\ results \subseteq instanceLoaded)
    /\ [][instances' > instances => (Pending = {} /\ instanceLoaded = {})]_vars

====
